---- MODULE Spec2Model ----
(***************************************************************************)
(* The auction lifecycle engine of lightbulb: the per-chain AuctionWorker  *)
(* (src/core/auction/worker.rs), the AuctionManager with its message-bus   *)
(* consumer (src/core/auction/manager.rs) and the pending-auction queues   *)
(* of the AuctionRegistry (src/services/registry).                         *)
(*                                                                         *)
(* Option<T> is a sequence of length 0 (None) or 1 (Some).  Every await on *)
(* a lock or on the channel is a possible interleaving point, so a method  *)
(* that takes several locks in turn is one action per critical section.    *)
(***************************************************************************)
EXTENDS Integers, Sequences, FiniteSets, TLC

\* ------------------------------------------------------------------ bounds
MaxTime == 2          \* the clock runs over 0..MaxTime
MaxStart == 1         \* start_time of a submitted offer is in 0..MaxStart
MaxSubmissions == 2   \* submit_auction_info calls that are accepted in a run
MaxBids == 2          \* bids a worker holds for one auction
MaxAmount == 2        \* bid_amount is in 1..MaxAmount
NumStarters == 2      \* concurrent callers of start_next_auction
BusCapacity == 2      \* capacity of the worker -> manager channel (100 in the code)
MaxStored == 2        \* store_bid calls that are accepted in a run
NumFlushers == 2      \* flush tasks of one chain (BidSpec)
BidOffers == 1        \* submit_auction_info calls that are accepted in a run of BidSpec
NumWorkerCallers == 2 \* concurrent callers of start_worker_for_chain (LateSpec)
LateOffers == 1       \* submit_auction_info calls that are accepted in a run of LateSpec
GasLimit == 1         \* ChainInfo.gas_limit of the registered chain

\* SlaRegistry::validate_timings: the shortest auction, in clock units.
MinAuctionTime == 500

Chains == {1}
Sellers == {"S"}
Bidders == {"a", "b"}
Blocks == {1}
Starters == 1..NumStarters
Flushers == 1..NumFlushers
WorkerCallers == 1..NumWorkerCallers

VARIABLES
    now,               \* current_unix_ms()
    auction_queues,    \* AuctionRegistry.auction_queues: chain -> binary heap (array)
    n_submitted,       \* accepted submit_auction_info calls so far (run bound)
    worker,            \* AuctionWorker.state per chain: Option<AuctionState>
    sending,           \* per chain: the message a tick is blocked on, state lock held
    bus,               \* the mpsc channel of WorkerMessage
    ongoing_auctions,  \* AuctionManager.ongoing_auctions: chain -> Option<AuctionInfo>
    spc,               \* per start_next_auction caller: position in the method
    snext,             \* per caller: its local next_info (Option<AuctionInfo>)
    cpc,               \* the bus consumer's position in handle_worker_message
    cmsg,              \* the message the consumer is handling (Option)
    reply,             \* result of the latest submit_bid / submit_bid_batch call
    accepted,          \* history: per chain the bids accepted since start_auction, in order
    ended_sent,        \* history: per auction id, AuctionEnded messages sent (capped at 2)
    sret,              \* per start_next_auction caller: the value its latest call returned
    last_pop,          \* history: per chain the auction the latest pop removed (Option)
    in_flight,         \* history: per chain the messages sent and not yet received, in order
    bid_buffer,        \* BidService.bid_buffer: chain -> (auction id -> Vec<Bid>)
    fpc,               \* per flush task: position in flush_bids
    fid,               \* per flush task: its local auction_id (Option)
    fbids,             \* per flush task: its local bids_to_flush
    flush_tasks,       \* per chain: the flush tasks spawned for it (start_tasks, add_chain)
    n_stored,          \* accepted store_bid calls so far (run bound)
    store_log,         \* history: per chain and auction id the bids store_bid accepted, in order
    passed,            \* history: per chain and auction id the batches given to submit_bid_batch
    workers,           \* AuctionManager.workers: the chains that have a worker
    wpc,               \* per start_worker_for_chain caller: position in the method
    created,           \* history: per chain the AuctionWorkers created and inserted
    spawned,           \* history: per chain the worker.run() tasks spawned
    chain_registry,    \* ChainRegistry.chain_info_map while chains are registered: chain -> Option<ChainInfo>
    queue_registry,    \* AuctionRegistry.auction_queues while chains are registered: chain -> Option<heap>
    rpc,               \* per register_chain caller: position in the method
    rchain,            \* per register_chain caller: its chain_id
    rret,              \* per register_chain caller: the result of its latest call
    vpc,               \* the submit_auction_info call beside them: position in the method
    vinfo,             \* that call's auction_info (Option)
    vret,              \* the result of the latest submit_auction_info call beside them
    registry_bids,     \* BidRegistry.bids: chain -> Option<Vec<Bid>>
    processing_bids,   \* BidRegistry.processing_bids: chain -> Vec<Bid> (no entry = empty)
    added,             \* history: per chain the bids add_bid accepted since the latest take
    bret               \* the result of the latest BidRegistry call

\* The BidService and its history.
bidvars == <<bid_buffer, fpc, fid, fbids, flush_tasks, n_stored, store_log, passed>>

\* The manager's worker map and the calls that fill it.
mgrvars == <<workers, wpc, created, spawned>>

\* The two registries while register_chain and submit_auction_info calls run.
chainvars == <<chain_registry, queue_registry, rpc, rchain, rret, vpc, vinfo, vret>>

\* The BidRegistry and its history.
bidregvars == <<registry_bids, processing_bids, added, bret>>

\* The registries that stand beside the engine.
regvars == <<chainvars, bidregvars>>

\* Everything but the registries under registration.
enginevars == <<now, auction_queues, n_submitted, worker, sending, bus, ongoing_auctions,
                spc, snext, cpc, cmsg, reply, accepted, ended_sent, sret, last_pop, in_flight,
                bidvars, mgrvars>>

vars == <<now, auction_queues, n_submitted, worker, sending, bus, ongoing_auctions,
          spc, snext, cpc, cmsg, reply, accepted, ended_sent, sret, last_pop, in_flight,
          bidvars, mgrvars, regvars>>

None == <<>>
Some(x) == <<x>>

\* ------------------------------------------------------------------ domain

\* compute_hash: SHA-256 over the concatenated fields, hex encoded.  The digest is
\* modelled as a collision-free positional code of the field values.
RECURSIVE compute_hash(_)
compute_hash(inputs) ==
    IF inputs = <<>> THEN 0
    ELSE compute_hash(SubSeq(inputs, 1, Len(inputs) - 1)) * (MaxTime + 3)
         + inputs[Len(inputs)] + 1

SellerCode(s) == IF s = "S" THEN 1 ELSE 2

\* AuctionInfo::new.  seller_signature only feeds the id and is the same for every
\* offer here, so it is left out of the record.
AuctionInfoNew(chain_id, block_number, seller_address, blockspace_size, start_time, end_time) ==
    [ id |-> compute_hash(<<chain_id, block_number, SellerCode(seller_address),
                            blockspace_size, start_time, end_time>>),
      chain_id |-> chain_id,
      block_number |-> block_number,
      seller_address |-> seller_address,
      blockspace_size |-> blockspace_size,
      start_time |-> start_time,
      end_time |-> end_time ]

\* The offers a seller may submit.
AllInfos ==
    { AuctionInfoNew(c, b, s, GasLimit, st, en) :
        c \in Chains, b \in Blocks, s \in Sellers, st \in 0..MaxStart, en \in 1..MaxTime }

\* The offers tried on the registry alone: also an unregistered seller and a
\* blockspace_size above the chain's gas_limit.
RegistryInfos ==
    { AuctionInfoNew(c, b, s, size, st, en) :
        c \in Chains, b \in Blocks, s \in Sellers \cup {"T"}, size \in GasLimit..(GasLimit + 1),
        st \in 0..MaxStart, en \in 1..MaxTime }

AllIds == { i.id : i \in AllInfos }

\* The transactions a bidder sends with a bid of a given amount (Vec<Tx>): one
\* transaction, different for every bidder and amount.
TxList(bidder_addr, bid_amount) == << [ tx_data |-> <<bidder_addr, bid_amount>> ] >>

\* Bid; bidder_signature is not read by the engine.
AllBids ==
    { [ bidder_addr |-> b, bid_amount |-> n, tx_list |-> TxList(b, n) ] :
        b \in Bidders, n \in 1..MaxAmount }

\* The highest amount the admission check lets through (validate_bid_amount).
MaxBidAmount == 1000000000

\* Bids at and just above the admission limit.
LargeBids ==
    { [ bidder_addr |-> b, bid_amount |-> n, tx_list |-> TxList(b, n) ] :
        b \in {"a"}, n \in MaxBidAmount..(MaxBidAmount + 1) }

\* AuctionState::new
AuctionStateNew(auction_info) ==
    [ auction_info |-> auction_info,
      highest_bid |-> 0,
      winner |-> None,
      bids |-> <<>>,
      is_ended |-> FALSE ]

WorkerMessage(message_type, chain_id, auction_id) ==
    [ message_type |-> message_type, chain_id |-> chain_id, auction_id |-> auction_id ]

\* ChainRegistry.chain_info_map (chains registered before the manager is built)
chain_info_map == [ c \in Chains |-> [ gas_limit |-> GasLimit, registered_sellers |-> Sellers ] ]

\* ------------------------------------------------------------------ registry queue
\* BinaryHeap<Reverse<AuctionInfo>>; AuctionInfo's Ord compares start_time only.
\* The heap is std's array heap, 1-indexed here: parent of i is i \div 2.

Swap(h, i, j) == [ h EXCEPT ![i] = h[j], ![j] = h[i] ]

\* The order of AuctionInfo without the Reverse wrapper: a max-heap on start_time.
ReverseLe_Forward(a, b) == a.start_time <= b.start_time

\* Reverse(a) <= Reverse(b)  iff  b <= a  iff  b.start_time <= a.start_time
ReverseLe(a, b) == b.start_time <= a.start_time

RECURSIVE SiftUp(_, _)
SiftUp(h, pos) ==
    IF pos > 1 /\ ~ReverseLe(h[pos], h[pos \div 2])
    THEN SiftUp(Swap(h, pos, pos \div 2), pos \div 2)
    ELSE h

\* sift_down_to_bottom(0): the hole goes down to a leaf along the greater child
\* (the right one on a tie), then the element is sifted up from there.
RECURSIVE SiftDownToBottom(_, _)
SiftDownToBottom(h, pos) ==
    LET end == Len(h)
        child == 2 * pos
    IN  IF child <= end - 1
        THEN LET c == IF ReverseLe(h[child], h[child + 1]) THEN child + 1 ELSE child
             IN  SiftDownToBottom(Swap(h, pos, c), c)
        ELSE IF child = end
        THEN SiftUp(Swap(h, pos, child), child)
        ELSE SiftUp(h, pos)

HeapPush(h, item) == SiftUp(Append(h, item), Len(h) + 1)

HeapPeek(h) == IF h = <<>> THEN None ELSE Some(h[1])

HeapPop(h) ==
    IF h = <<>> THEN h
    ELSE IF Len(h) = 1 THEN <<>>
    ELSE SiftDownToBottom(<<h[Len(h)]>> \o SubSeq(h, 2, Len(h) - 1), 1)

\* AuctionRegistry::get_next_auction_info
get_next_auction_info(chain_id) ==
    IF chain_id \in DOMAIN auction_queues THEN HeapPeek(auction_queues[chain_id]) ELSE None

\* AuctionRegistry::pop_next_auction (the new queues)
pop_next_auction(chain_id) ==
    IF chain_id \in DOMAIN auction_queues
    THEN [ auction_queues EXCEPT ![chain_id] = HeapPop(@) ]
    ELSE auction_queues

\* AuctionRegistry::store_auction_info (the new queues; the chain has a queue)
store_auction_info(auction_info) ==
    [ auction_queues EXCEPT ![auction_info.chain_id] = HeapPush(@, auction_info) ]

\* RegistryService::validate_auction_info
validate_auction_info(auction_info) ==
    IF auction_info.chain_id \notin DOMAIN chain_info_map THEN "InvalidChainId"
    ELSE IF auction_info.seller_address
              \notin chain_info_map[auction_info.chain_id].registered_sellers
    THEN "SellerNotRegistered"
    ELSE "Ok"

\* ------------------------------------------------------------------ worker

Amounts(bids) == { bids[i].bid_amount : i \in 1..Len(bids) }

MaxOf(S) == CHOOSE m \in S : \A x \in S : x <= m

IndexPerms(n) == { f \in [1..n -> 1..n] : \A i, j \in 1..n : i # j => f[i] # f[j] }

Reorder(bids, f) == [ i \in 1..Len(bids) |-> bids[f[i]] ]

\* The comparator |a, b| b.bid_amount.cmp(&a.bid_amount): a sorts before b iff
\* a.bid_amount > b.bid_amount.
IsSortedBy(s) == \A i \in 1..(Len(s) - 1) : s[i].bid_amount >= s[i + 1].bid_amount

\* A comparator written the wrong way round: ascending by amount.
sort_ascending(bids) ==
    IF bids = <<>> THEN { <<>> }
    ELSE { s \in { Reorder(bids, f) : f \in IndexPerms(Len(bids)) } :
             \A i \in 1..(Len(s) - 1) : s[i].bid_amount <= s[i + 1].bid_amount }

\* A pass that keeps only the bids with the highest amount.
sort_KeepTop(bids) ==
    IF bids = <<>> THEN { <<>> }
    ELSE { SelectSeq(bids, LAMBDA b : b.bid_amount = MaxOf(Amounts(bids))) }

\* bids.sort_unstable_by(..): the results slice::sort_unstable_by may give, which
\* promises an ordered slice and no order among equal elements.
sort_unstable_by(bids) ==
    IF bids = <<>> THEN { <<>> }
    ELSE { s \in { Reorder(bids, f) : f \in IndexPerms(Len(bids)) } : IsSortedBy(s) }

\* An update that takes the winner from the last bid of the sorted list.
WithLeader_LastBidder(st, sorted) ==
    IF sorted = <<>>
    THEN [ st EXCEPT !.bids = sorted ]
    ELSE [ st EXCEPT !.bids = sorted,
                     !.highest_bid = sorted[1].bid_amount,
                     !.winner = Some(sorted[Len(sorted)].bidder_addr) ]

\* The state after the sort and the `if let Some(top_bid) = bids.first()` update.
WithLeader(st, sorted) ==
    IF sorted = <<>>
    THEN [ st EXCEPT !.bids = sorted ]
    ELSE [ st EXCEPT !.bids = sorted,
                     !.highest_bid = sorted[1].bid_amount,
                     !.winner = Some(sorted[1].bidder_addr) ]

\* An end branch that marks the auction ended and keeps the leader of the last
\* in-window tick.
EndedState_KeepsLeader(st, sorted) == [ st EXCEPT !.is_ended = TRUE, !.bids = sorted ]

\* The end branch of process_auction: is_ended = true, sort, leader update.
EndedState(st, sorted) == WithLeader([ st EXCEPT !.is_ended = TRUE ], sorted)

\* The worker's state lock is free (no tick is parked on the channel holding it).
LockFree(c) == sending[c] = None

\* A send that gives the message up when the channel is full.
SendOrPark_DropWhenFull(c, msg) ==
    /\ in_flight' = [ in_flight EXCEPT ![c] = Append(@, msg) ]
    /\ IF Len(bus) < BusCapacity
       THEN /\ bus' = Append(bus, msg)
            /\ sending' = sending
       ELSE /\ bus' = bus
            /\ sending' = sending

\* send_worker_message under the state lock: the message is queued at once when the
\* channel has room; otherwise the tick parks on the send and keeps the lock.
SendOrPark(c, msg) ==
    /\ in_flight' = [ in_flight EXCEPT ![c] = Append(@, msg) ]
    /\ IF Len(bus) < BusCapacity
       THEN /\ bus' = Append(bus, msg)
            /\ sending' = sending
       ELSE /\ bus' = bus
            /\ sending' = [ sending EXCEPT ![c] = Some(msg) ]

CountEnded(id) == [ ended_sent EXCEPT ![id] = IF @ < 2 THEN @ + 1 ELSE @ ]

\* A tick that ends the auction only once the clock is past end_time.
ProcessAuction_PastEnd(c) ==
    /\ spawned[c] >= 1
    /\ LockFree(c)
    /\ worker[c] # None
    /\ LET st == worker[c][1]
           info == st.auction_info
       IN  IF st.is_ended \/ now < info.start_time
           THEN UNCHANGED vars
           ELSE IF now > info.end_time
           THEN \E sorted \in sort_unstable_by(st.bids) :
                   /\ worker' = [ worker EXCEPT ![c] =
                                    Some(EndedState(st, sorted)) ]
                   /\ SendOrPark(c, WorkerMessage("AuctionEnded", c, info.id))
                   /\ ended_sent' = CountEnded(info.id)
                   /\ UNCHANGED <<now, auction_queues, n_submitted, ongoing_auctions,
                                  spc, snext, cpc, cmsg, reply, accepted,
                                  sret, last_pop, bidvars, mgrvars, regvars>>
           ELSE \E sorted \in sort_unstable_by(st.bids) :
                   /\ worker' = [ worker EXCEPT ![c] = Some(WithLeader(st, sorted)) ]
                   /\ SendOrPark(c, WorkerMessage("AuctionProcessing", c, info.id))
                   /\ UNCHANGED <<now, auction_queues, n_submitted, ongoing_auctions,
                                  spc, snext, cpc, cmsg, reply, accepted, ended_sent,
                                  sret, last_pop, bidvars, mgrvars, regvars>>

\* AuctionWorker::process_auction, one tick of AuctionWorker::run
ProcessAuction(c) ==
    /\ spawned[c] >= 1
    /\ LockFree(c)
    /\ worker[c] # None
    /\ LET st == worker[c][1]
           info == st.auction_info
       IN  IF st.is_ended \/ now < info.start_time
           THEN UNCHANGED vars
           ELSE IF now >= info.end_time
           THEN \E sorted \in sort_unstable_by(st.bids) :
                   /\ worker' = [ worker EXCEPT ![c] =
                                    Some(EndedState(st, sorted)) ]
                   /\ SendOrPark(c, WorkerMessage("AuctionEnded", c, info.id))
                   /\ ended_sent' = CountEnded(info.id)
                   /\ UNCHANGED <<now, auction_queues, n_submitted, ongoing_auctions,
                                  spc, snext, cpc, cmsg, reply, accepted,
                                  sret, last_pop, bidvars, mgrvars, regvars>>
           ELSE \E sorted \in sort_unstable_by(st.bids) :
                   /\ worker' = [ worker EXCEPT ![c] = Some(WithLeader(st, sorted)) ]
                   /\ SendOrPark(c, WorkerMessage("AuctionProcessing", c, info.id))
                   /\ UNCHANGED <<now, auction_queues, n_submitted, ongoing_auctions,
                                  spc, snext, cpc, cmsg, reply, accepted, ended_sent,
                                  sret, last_pop, bidvars, mgrvars, regvars>>

\* The parked send of a tick completes and the tick drops the state lock.
SendCompletes(c) ==
    /\ sending[c] # None
    /\ Len(bus) < BusCapacity
    /\ bus' = Append(bus, sending[c][1])
    /\ sending' = [ sending EXCEPT ![c] = None ]
    /\ UNCHANGED <<now, auction_queues, n_submitted, worker, ongoing_auctions,
                   spc, snext, cpc, cmsg, reply, accepted, ended_sent,
                   sret, last_pop, in_flight, bidvars, mgrvars, regvars>>

\* submit_bid that does not compare the auction id.
SubmitBidResult_NoIdCheck(c, auction_id) ==
    IF worker[c] = None THEN "NoAuctions"
    ELSE IF worker[c][1].is_ended THEN "AuctionEnded"
    ELSE "Ok"

\* submit_bid without the is_ended check.
SubmitBidResult_NoEndedCheck(c, auction_id) ==
    IF worker[c] = None THEN "NoAuctions"
    ELSE IF worker[c][1].auction_info.id # auction_id THEN "InvalidAuctionId"
    ELSE "Ok"

\* submit_bid with the auction id compared before is_ended is looked at.
SubmitBidResult_IdFirst(c, auction_id) ==
    IF worker[c] = None THEN "NoAuctions"
    ELSE IF worker[c][1].auction_info.id # auction_id THEN "InvalidAuctionId"
    ELSE IF worker[c][1].is_ended THEN "AuctionEnded"
    ELSE "Ok"

\* The Result of AuctionWorker::submit_bid
SubmitBidResult(c, auction_id) ==
    IF worker[c] = None THEN "NoAuctions"
    ELSE IF worker[c][1].is_ended THEN "AuctionEnded"
    ELSE IF worker[c][1].auction_info.id # auction_id THEN "InvalidAuctionId"
    ELSE "Ok"

\* The manager finds no worker for the chain: Err(AuctionError::NoAuctions).
NoWorker ==
    /\ reply' = "NoAuctions"
    /\ UNCHANGED <<now, auction_queues, n_submitted, worker, sending, bus, ongoing_auctions,
                   spc, snext, cpc, cmsg, accepted, ended_sent,
                   sret, last_pop, in_flight, mgrvars, regvars>>

\* A submit_bid that puts the bid in front of bids.
submit_bid_Front(c, auction_id, bid) ==
    /\ LockFree(c)
    /\ reply' = SubmitBidResult(c, auction_id)
    /\ IF SubmitBidResult(c, auction_id) = "Ok"
       THEN /\ worker' = [ worker EXCEPT ![c] = Some([ @[1] EXCEPT !.bids = <<bid>> \o @ ]) ]
            /\ accepted' = [ accepted EXCEPT ![c] = Append(@, bid) ]
       ELSE UNCHANGED <<worker, accepted>>
    /\ UNCHANGED <<now, auction_queues, n_submitted, sending, bus, ongoing_auctions,
                   spc, snext, cpc, cmsg, ended_sent,
                   sret, last_pop, in_flight, bidvars, mgrvars, regvars>>

\* AuctionWorker::submit_bid under the state write lock.
submit_bid(c, auction_id, bid) ==
    /\ LockFree(c)
    /\ reply' = SubmitBidResult(c, auction_id)
    /\ IF SubmitBidResult(c, auction_id) = "Ok"
       THEN /\ worker' = [ worker EXCEPT ![c] = Some([ @[1] EXCEPT !.bids = Append(@, bid) ]) ]
            /\ accepted' = [ accepted EXCEPT ![c] = Append(@, bid) ]
       ELSE UNCHANGED <<worker, accepted>>
    /\ UNCHANGED <<now, auction_queues, n_submitted, sending, bus, ongoing_auctions,
                   spc, snext, cpc, cmsg, ended_sent,
                   sret, last_pop, in_flight, bidvars, mgrvars, regvars>>

\* The index of the first bid of bidder addr in bids, 0 when there is none.
FindBidder(bids, addr) ==
    IF \E i \in 1..Len(bids) : bids[i].bidder_addr = addr
    THEN CHOOSE i \in 1..Len(bids) :
            /\ bids[i].bidder_addr = addr
            /\ \A j \in 1..(i - 1) : bids[j].bidder_addr # addr
    ELSE 0

\* A get_latest_tob that returns the tx_list of the winner's latest bid.
get_latest_tob_Latest(c) ==
    IF worker[c] = None THEN "NoAuctions"
    ELSE IF worker[c][1].winner = None THEN <<>>
    ELSE LET bids == worker[c][1].bids
             mine == { i \in 1..Len(bids) : bids[i].bidder_addr = worker[c][1].winner[1] }
         IN  IF mine = {} THEN <<>>
             ELSE bids[CHOOSE i \in mine : \A j \in mine : j <= i].tx_list

\* AuctionWorker::get_latest_tob: bids.iter().find(bidder_addr == winner), its
\* tx_list, or the empty list.
get_latest_tob(c) ==
    IF worker[c] = None THEN "NoAuctions"
    ELSE IF worker[c][1].winner = None THEN <<>>
    ELSE IF FindBidder(worker[c][1].bids, worker[c][1].winner[1]) = 0 THEN <<>>
    ELSE worker[c][1].bids[FindBidder(worker[c][1].bids, worker[c][1].winner[1])].tx_list

\* AuctionWorker::get_auction_state
get_auction_state(c) == IF worker[c] = None THEN "NoAuctions" ELSE worker[c][1]

\* AuctionWorker::request_sale_info
request_sale_info(c) ==
    IF worker[c] = None THEN "NoAuctions"
    ELSE <<worker[c][1].auction_info.id, worker[c][1].auction_info>>

\* A batch call that appends the bids up to the first one it cannot take: here the
\* first bid only.
submit_bid_batch_FirstOnly(c, auction_id, batch) ==
    /\ LockFree(c)
    /\ reply' = SubmitBidResult(c, auction_id)
    /\ IF SubmitBidResult(c, auction_id) = "Ok"
       THEN /\ worker' = [ worker EXCEPT ![c] =
                            Some([ @[1] EXCEPT !.bids = Append(@, batch[1]) ]) ]
            /\ accepted' = [ accepted EXCEPT ![c] = Append(@, batch[1]) ]
       ELSE UNCHANGED <<worker, accepted>>
    /\ UNCHANGED <<now, auction_queues, n_submitted, sending, bus, ongoing_auctions,
                   spc, snext, cpc, cmsg, ended_sent, sret, last_pop, in_flight, mgrvars, regvars>>

\* AuctionWorker::submit_bid_batch is called by AuctionManager::submit_bid_batch but is
\* not in worker.rs; it follows the design: the checks of submit_bid under the state
\* write lock, then all bids appended in the given order, or none.
submit_bid_batch(c, auction_id, batch) ==
    /\ LockFree(c)
    /\ reply' = SubmitBidResult(c, auction_id)
    /\ IF SubmitBidResult(c, auction_id) = "Ok"
       THEN /\ worker' = [ worker EXCEPT ![c] = Some([ @[1] EXCEPT !.bids = @ \o batch ]) ]
            /\ accepted' = [ accepted EXCEPT ![c] = @ \o batch ]
       ELSE UNCHANGED <<worker, accepted>>
    /\ UNCHANGED <<now, auction_queues, n_submitted, sending, bus, ongoing_auctions,
                   spc, snext, cpc, cmsg, ended_sent, sret, last_pop, in_flight, mgrvars, regvars>>

\* AuctionManager::submit_bid: the worker of the chain is looked up and the bid
\* handed to it.
SubmitBid(c, auction_id, bid) ==
    IF c \in workers
    THEN submit_bid(c, auction_id, bid)
    ELSE NoWorker /\ UNCHANGED bidvars

\* AuctionManager::submit_bid_batch: the worker of the chain is looked up and the
\* batch handed to it.
manager_submit_bid_batch(c, auction_id, batch) ==
    IF c \in workers
    THEN submit_bid_batch(c, auction_id, batch)
    ELSE NoWorker

\* AuctionManager::submit_bid_batch called directly.
SubmitBidBatch(c, auction_id, batch) ==
    /\ c \in Chains
    /\ manager_submit_bid_batch(c, auction_id, batch)
    /\ UNCHANGED bidvars

\* ------------------------------------------------------------------ registry service

\* RegistryService::submit_auction_info
SubmitAuctionInfo(auction_info) ==
    /\ n_submitted < MaxSubmissions
    /\ IF validate_auction_info(auction_info) = "Ok"
       THEN /\ auction_queues' = store_auction_info(auction_info)
            /\ n_submitted' = n_submitted + 1
       ELSE UNCHANGED <<auction_queues, n_submitted>>
    /\ UNCHANGED <<now, worker, sending, bus, ongoing_auctions, spc, snext, cpc, cmsg,
                   reply, accepted, ended_sent,
                   sret, last_pop, in_flight, bidvars, mgrvars, regvars>>

\* ------------------------------------------------------------------ manager


\* The chain a start_worker_for_chain caller names.
WorkerChain(w) == CHOOSE c \in Chains : TRUE

\* start_worker_for_chain, step 1: contains_key under the workers read lock; the
\* call returns when the chain has a worker.
WorkerCheck(w) ==
    /\ wpc[w] = "idle"
    /\ IF WorkerChain(w) \in workers
       THEN UNCHANGED wpc
       ELSE wpc' = [ wpc EXCEPT ![w] = "write" ]
    /\ UNCHANGED <<now, auction_queues, n_submitted, worker, sending, bus, ongoing_auctions,
                   spc, snext, cpc, cmsg, reply, accepted, ended_sent, sret, last_pop,
                   in_flight, regvars, bidvars, workers, created, spawned>>

\* A step 2 without the second contains_key.
WorkerInsert_NoRecheck(w) ==
    /\ wpc[w] = "write"
    /\ workers' = workers \cup { WorkerChain(w) }
    /\ created' = [ created EXCEPT ![WorkerChain(w)] = @ + 1 ]
    /\ wpc' = [ wpc EXCEPT ![w] = "spawn" ]
    /\ UNCHANGED <<now, auction_queues, n_submitted, worker, sending, bus, ongoing_auctions,
                   spc, snext, cpc, cmsg, reply, accepted, ended_sent, sret, last_pop,
                   in_flight, regvars, bidvars, spawned>>

\* step 2: under the workers write lock contains_key again, then AuctionWorker::new
\* and workers.insert.
WorkerInsert(w) ==
    /\ wpc[w] = "write"
    /\ IF WorkerChain(w) \in workers
       THEN /\ wpc' = [ wpc EXCEPT ![w] = "idle" ]
            /\ UNCHANGED <<workers, created>>
       ELSE /\ workers' = workers \cup { WorkerChain(w) }
            /\ created' = [ created EXCEPT ![WorkerChain(w)] = @ + 1 ]
            /\ wpc' = [ wpc EXCEPT ![w] = "spawn" ]
    /\ UNCHANGED <<now, auction_queues, n_submitted, worker, sending, bus, ongoing_auctions,
                   spc, snext, cpc, cmsg, reply, accepted, ended_sent, sret, last_pop,
                   in_flight, regvars, bidvars, spawned>>

\* step 3: tokio::spawn(worker.run()).
WorkerSpawn(w) ==
    /\ wpc[w] = "spawn"
    /\ spawned' = [ spawned EXCEPT ![WorkerChain(w)] = @ + 1 ]
    /\ wpc' = [ wpc EXCEPT ![w] = "handle" ]
    /\ UNCHANGED <<now, auction_queues, n_submitted, worker, sending, bus, ongoing_auctions,
                   spc, snext, cpc, cmsg, reply, accepted, ended_sent, sret, last_pop,
                   in_flight, regvars, bidvars, workers, created>>

\* step 4: worker_handles.insert under its write lock; the call returns.
WorkerHandle(w) ==
    /\ wpc[w] = "handle"
    /\ wpc' = [ wpc EXCEPT ![w] = "idle" ]
    /\ UNCHANGED <<now, auction_queues, n_submitted, worker, sending, bus, ongoing_auctions,
                   spc, snext, cpc, cmsg, reply, accepted, ended_sent, sret, last_pop,
                   in_flight, regvars, bidvars, workers, created, spawned>>

\* What a start_next_auction call returned; InCall while no call has returned yet.
Returned(value) == [ returned |-> TRUE, value |-> value ]
InCall == [ returned |-> FALSE, value |-> None ]

\* A peek that finds an auction at every queue length.
StartPeek_Always(s, c) ==
    /\ spc[s] = "idle"
    /\ snext' = [ snext EXCEPT ![s] = Some(CHOOSE i \in AllInfos : i.chain_id = c) ]
    /\ spc' = [ spc EXCEPT ![s] = "check" ]
    /\ sret' = [ sret EXCEPT ![s] = InCall ]
    /\ UNCHANGED <<now, auction_queues, n_submitted, worker, sending, bus,
                   ongoing_auctions, cpc, cmsg, reply, accepted, ended_sent,
                   last_pop, in_flight, bidvars, mgrvars, regvars>>

\* start_next_auction, step 1: peek under the registry read lock; `?` returns None
\* when the chain has no queue or the queue is empty.
StartPeek(s, c) ==
    /\ spc[s] = "idle"
    /\ IF get_next_auction_info(c) = None
       THEN /\ sret' = [ sret EXCEPT ![s] = Returned(None) ]
            /\ UNCHANGED <<snext, spc>>
       ELSE /\ snext' = [ snext EXCEPT ![s] = get_next_auction_info(c) ]
            /\ spc' = [ spc EXCEPT ![s] = "check" ]
            /\ sret' = [ sret EXCEPT ![s] = InCall ]
    /\ UNCHANGED <<now, auction_queues, n_submitted, worker, sending, bus,
                   ongoing_auctions, cpc, cmsg, reply, accepted, ended_sent,
                   last_pop, in_flight, bidvars, mgrvars, regvars>>

\* A step 2 that does not look at the clock.
StartCheck_NoClock(s) ==
    /\ spc[s] = "check"
    /\ spc' = [ spc EXCEPT ![s] = "pop" ]
    /\ UNCHANGED <<now, auction_queues, n_submitted, worker, sending, bus,
                   ongoing_auctions, snext, cpc, cmsg, reply, accepted, ended_sent,
                   sret, last_pop, in_flight, bidvars, mgrvars, regvars>>

\* step 2: current_unix_ms() < next_info.start_time returns None.
StartCheck(s) ==
    /\ spc[s] = "check"
    /\ IF now < snext[s][1].start_time
       THEN /\ spc' = [ spc EXCEPT ![s] = "idle" ]
            /\ snext' = [ snext EXCEPT ![s] = None ]
            /\ sret' = [ sret EXCEPT ![s] = Returned(None) ]
       ELSE /\ spc' = [ spc EXCEPT ![s] = "pop" ]
            /\ UNCHANGED <<snext, sret>>
    /\ UNCHANGED <<now, auction_queues, n_submitted, worker, sending, bus,
                   ongoing_auctions, cpc, cmsg, reply, accepted, ended_sent,
                   last_pop, in_flight, bidvars, mgrvars, regvars>>

\* step 3: pop under the registry write lock; the popped value is dropped.
StartPop(s) ==
    /\ spc[s] = "pop"
    /\ auction_queues' = pop_next_auction(snext[s][1].chain_id)
    /\ last_pop' = [ last_pop EXCEPT ![snext[s][1].chain_id] =
                      IF auction_queues[snext[s][1].chain_id] = <<>> THEN @
                      ELSE HeapPeek(auction_queues[snext[s][1].chain_id]) ]
    /\ spc' = [ spc EXCEPT ![s] = "worker" ]
    /\ UNCHANGED <<now, n_submitted, worker, sending, bus, ongoing_auctions, snext,
                   cpc, cmsg, reply, accepted, ended_sent,
                   sret, in_flight, bidvars, mgrvars, regvars>>

\* step 4: look the chain's worker up; None when there is none.
StartGetWorker(s) ==
    /\ spc[s] = "worker"
    /\ IF snext[s][1].chain_id \in workers
       THEN /\ spc' = [ spc EXCEPT ![s] = "start" ]
            /\ UNCHANGED <<snext, sret>>
       ELSE /\ spc' = [ spc EXCEPT ![s] = "idle" ]
            /\ snext' = [ snext EXCEPT ![s] = None ]
            /\ sret' = [ sret EXCEPT ![s] = Returned(None) ]
    /\ UNCHANGED <<now, auction_queues, n_submitted, worker, sending, bus,
                   ongoing_auctions, cpc, cmsg, reply, accepted, ended_sent,
                   last_pop, in_flight, bidvars, mgrvars, regvars>>

\* step 5: AuctionWorker::start_auction under the worker's state write lock.
StartAuction(s) ==
    /\ spc[s] = "start"
    /\ LockFree(snext[s][1].chain_id)
    /\ worker' = [ worker EXCEPT ![snext[s][1].chain_id] = Some(AuctionStateNew(snext[s][1])) ]
    /\ accepted' = [ accepted EXCEPT ![snext[s][1].chain_id] = <<>> ]
    /\ spc' = [ spc EXCEPT ![s] = "insert" ]
    /\ UNCHANGED <<now, auction_queues, n_submitted, sending, bus, ongoing_auctions,
                   snext, cpc, cmsg, reply, ended_sent,
                   sret, last_pop, in_flight, bidvars, mgrvars, regvars>>

\* step 6: insert into ongoing_auctions under its write lock, return the id.
StartInsert(s) ==
    /\ spc[s] = "insert"
    /\ ongoing_auctions' = [ ongoing_auctions EXCEPT ![snext[s][1].chain_id] = snext[s] ]
    /\ spc' = [ spc EXCEPT ![s] = "idle" ]
    /\ snext' = [ snext EXCEPT ![s] = None ]
    /\ sret' = [ sret EXCEPT ![s] = Returned(Some(snext[s][1].id)) ]
    /\ UNCHANGED <<now, auction_queues, n_submitted, worker, sending, bus,
                   cpc, cmsg, reply, accepted, ended_sent,
                   last_pop, in_flight, bidvars, mgrvars, regvars>>

\* AuctionManager::get_ongoing_auction_id
get_ongoing_auction_id(c) ==
    IF ongoing_auctions[c] = None THEN None ELSE Some(ongoing_auctions[c][1].id)

\* A receive that takes the newest message of the channel.
Recv_Lifo ==
    /\ cpc = "recv"
    /\ bus # <<>>
    /\ bus' = SubSeq(bus, 1, Len(bus) - 1)
    /\ in_flight' = [ in_flight EXCEPT ![bus[Len(bus)].chain_id] = Tail(@) ]
    /\ IF bus[Len(bus)].message_type = "AuctionEnded"
       THEN /\ cmsg' = Some(bus[Len(bus)])
            /\ cpc' = "read"
       ELSE UNCHANGED <<cmsg, cpc>>
    /\ UNCHANGED <<now, auction_queues, n_submitted, worker, sending, ongoing_auctions,
                   spc, snext, reply, accepted, ended_sent,
                   sret, last_pop, bidvars, mgrvars, regvars>>

\* The consumer task: message_receiver.recv().  AuctionProcessing and Idle need no
\* further step of handle_worker_message.
Recv ==
    /\ cpc = "recv"
    /\ bus # <<>>
    /\ bus' = Tail(bus)
    /\ in_flight' = [ in_flight EXCEPT ![Head(bus).chain_id] = Tail(@) ]
    /\ IF Head(bus).message_type = "AuctionEnded"
       THEN /\ cmsg' = Some(Head(bus))
            /\ cpc' = "read"
       ELSE UNCHANGED <<cmsg, cpc>>
    /\ UNCHANGED <<now, auction_queues, n_submitted, worker, sending, ongoing_auctions,
                   spc, snext, reply, accepted, ended_sent,
                   sret, last_pop, bidvars, mgrvars, regvars>>

\* A consumer that looks the ongoing auction up only while the worker's state lock
\* is free.
HandleRead_UnderStateLock ==
    /\ cpc = "read"
    /\ LockFree(cmsg[1].chain_id)
    /\ IF /\ ongoing_auctions[cmsg[1].chain_id] # None
          /\ ongoing_auctions[cmsg[1].chain_id][1].id = cmsg[1].auction_id
       THEN /\ cpc' = "remove"
            /\ cmsg' = cmsg
       ELSE /\ cpc' = "recv"
            /\ cmsg' = None
    /\ UNCHANGED <<now, auction_queues, n_submitted, worker, sending, bus,
                   ongoing_auctions, spc, snext, reply, accepted, ended_sent,
                   sret, last_pop, in_flight, bidvars, mgrvars, regvars>>

\* handle_worker_message, AuctionEnded: the read of ongoing_auctions under its read
\* lock and the comparison of the ids.
HandleRead ==
    /\ cpc = "read"
    /\ IF /\ ongoing_auctions[cmsg[1].chain_id] # None
          /\ ongoing_auctions[cmsg[1].chain_id][1].id = cmsg[1].auction_id
       THEN /\ cpc' = "remove"
            /\ cmsg' = cmsg
       ELSE /\ cpc' = "recv"
            /\ cmsg' = None
    /\ UNCHANGED <<now, auction_queues, n_submitted, worker, sending, bus,
                   ongoing_auctions, spc, snext, reply, accepted, ended_sent,
                   sret, last_pop, in_flight, bidvars, mgrvars, regvars>>

\* handle_worker_message, AuctionEnded: ongoing_guard.remove(&chain_id) under the
\* write lock.
HandleRemove ==
    /\ cpc = "remove"
    /\ ongoing_auctions' = [ ongoing_auctions EXCEPT ![cmsg[1].chain_id] = None ]
    /\ cpc' = "recv"
    /\ cmsg' = None
    /\ UNCHANGED <<now, auction_queues, n_submitted, worker, sending, bus,
                   spc, snext, reply, accepted, ended_sent,
                   sret, last_pop, in_flight, bidvars, mgrvars, regvars>>

\* ------------------------------------------------------------------ bid service

\* The bids that come in through the bid service: one per bidder, with different
\* amounts.
StoreBids ==
    { b \in AllBids : (b.bidder_addr = "a" /\ b.bid_amount = 1)
                         \/ (b.bidder_addr = "b" /\ b.bid_amount = MaxAmount) }

\* The auctions a bidder can know of on chain c: the pending ones, the ongoing
\* one and the one the worker holds.
KnownIds(c) ==
    { auction_queues[c][i].id : i \in 1..Len(auction_queues[c]) }
    \cup { ongoing_auctions[c][i].id : i \in 1..Len(ongoing_auctions[c]) }
    \cup { worker[c][i].auction_info.id : i \in 1..Len(worker[c]) }

\* The chain a flush task works for.
FlushChain(f) == CHOOSE c \in Chains : TRUE

\* A store_bid that puts the bid in front of its list.
StoreBid_Front(c, auction_id, bid) ==
    /\ n_stored < MaxStored
    /\ c \in DOMAIN bid_buffer
    /\ bid_buffer' = [ bid_buffer EXCEPT ![c][auction_id] = <<bid>> \o @ ]
    /\ store_log' = [ store_log EXCEPT ![c][auction_id] =
                        Append(@, [ bid |-> bid,
                                    ongoing |-> get_ongoing_auction_id(c) = Some(auction_id) ]) ]
    /\ n_stored' = n_stored + 1
    /\ UNCHANGED <<now, auction_queues, n_submitted, worker, sending, bus, ongoing_auctions,
                   spc, snext, cpc, cmsg, reply, accepted, ended_sent, sret, last_pop,
                   in_flight, fpc, fid, fbids, flush_tasks, passed, mgrvars, regvars>>

\* A store_bid that has to wait while a flush of the chain is submitting its batch
\* (the flush keeps the buffer lock until submit_bid_batch returns).
StoreBid_AfterSubmit(c, auction_id, bid) ==
    /\ n_stored < MaxStored
    /\ \A f \in Flushers : ~(FlushChain(f) = c /\ fpc[f] = "submit")
    /\ c \in DOMAIN bid_buffer
    /\ bid_buffer' = [ bid_buffer EXCEPT ![c][auction_id] = Append(@, bid) ]
    /\ store_log' = [ store_log EXCEPT ![c][auction_id] =
                        Append(@, [ bid |-> bid,
                                    ongoing |-> get_ongoing_auction_id(c) = Some(auction_id) ]) ]
    /\ n_stored' = n_stored + 1
    /\ UNCHANGED <<now, auction_queues, n_submitted, worker, sending, bus, ongoing_auctions,
                   spc, snext, cpc, cmsg, reply, accepted, ended_sent, sret, last_pop,
                   in_flight, fpc, fid, fbids, flush_tasks, passed, mgrvars, regvars>>

\* BidService::store_bid for a bid that names chain c and auction auction_id.
StoreBid(c, auction_id, bid) ==
    /\ n_stored < MaxStored
    /\ c \in DOMAIN bid_buffer
    /\ bid_buffer' = [ bid_buffer EXCEPT ![c][auction_id] = Append(@, bid) ]
    /\ store_log' = [ store_log EXCEPT ![c][auction_id] =
                        Append(@, [ bid |-> bid,
                                    ongoing |-> get_ongoing_auction_id(c) = Some(auction_id) ]) ]
    /\ n_stored' = n_stored + 1
    /\ UNCHANGED <<now, auction_queues, n_submitted, worker, sending, bus, ongoing_auctions,
                   spc, snext, cpc, cmsg, reply, accepted, ended_sent, sret, last_pop,
                   in_flight, fpc, fid, fbids, flush_tasks, passed, mgrvars, regvars>>

\* BidService::add_chain for a chain that already has a flush task: the interval
\* and the buffer entry are kept or replaced, and one more flush task is spawned.
AddChain(c) ==
    /\ Cardinality(flush_tasks[c]) < NumFlushers
    /\ flush_tasks' = [ flush_tasks EXCEPT ![c] = @ \cup { Cardinality(@) + 1 } ]
    /\ UNCHANGED <<now, auction_queues, n_submitted, worker, sending, bus, ongoing_auctions,
                   spc, snext, cpc, cmsg, reply, accepted, ended_sent, sret, last_pop,
                   in_flight, bid_buffer, fpc, fid, fbids, n_stored, store_log, passed, mgrvars, regvars>>

\* flush_bids, step 1: the ongoing auction id of the chain; none ends the flush.
FlushGetId(f) ==
    /\ f \in flush_tasks[FlushChain(f)]
    /\ fpc[f] = "idle"
    /\ IF get_ongoing_auction_id(FlushChain(f)) = None
       THEN UNCHANGED <<fpc, fid>>
       ELSE /\ fid' = [ fid EXCEPT ![f] = get_ongoing_auction_id(FlushChain(f)) ]
            /\ fpc' = [ fpc EXCEPT ![f] = "take" ]
    /\ UNCHANGED <<now, auction_queues, n_submitted, worker, sending, bus, ongoing_auctions,
                   spc, snext, cpc, cmsg, reply, accepted, ended_sent, sret, last_pop,
                   in_flight, bid_buffer, fbids, flush_tasks, n_stored, store_log, passed, mgrvars, regvars>>

\* A take that copies the list and leaves it in the buffer.
FlushTake_Keeps(f) ==
    /\ fpc[f] = "take"
    /\ IF bid_buffer[FlushChain(f)][fid[f][1]] = <<>>
       THEN /\ fpc' = [ fpc EXCEPT ![f] = "idle" ]
            /\ fid' = [ fid EXCEPT ![f] = None ]
            /\ UNCHANGED fbids
       ELSE /\ fbids' = [ fbids EXCEPT ![f] = bid_buffer[FlushChain(f)][fid[f][1]] ]
            /\ fpc' = [ fpc EXCEPT ![f] = "submit" ]
            /\ UNCHANGED fid
    /\ UNCHANGED <<now, auction_queues, n_submitted, worker, sending, bus, ongoing_auctions,
                   spc, snext, cpc, cmsg, reply, accepted, ended_sent, sret, last_pop,
                   in_flight, bid_buffer, flush_tasks, n_stored, store_log, passed, mgrvars, regvars>>

\* A take that empties every list of the chain.
FlushTake_Clears(f) ==
    /\ fpc[f] = "take"
    /\ IF bid_buffer[FlushChain(f)][fid[f][1]] = <<>>
       THEN /\ fpc' = [ fpc EXCEPT ![f] = "idle" ]
            /\ fid' = [ fid EXCEPT ![f] = None ]
            /\ UNCHANGED <<fbids, bid_buffer>>
       ELSE /\ fbids' = [ fbids EXCEPT ![f] = bid_buffer[FlushChain(f)][fid[f][1]] ]
            /\ bid_buffer' = [ bid_buffer EXCEPT ![FlushChain(f)] = [ id \in AllIds |-> <<>> ] ]
            /\ fpc' = [ fpc EXCEPT ![f] = "submit" ]
            /\ UNCHANGED fid
    /\ UNCHANGED <<now, auction_queues, n_submitted, worker, sending, bus, ongoing_auctions,
                   spc, snext, cpc, cmsg, reply, accepted, ended_sent, sret, last_pop,
                   in_flight, flush_tasks, n_stored, store_log, passed, mgrvars, regvars>>

\* flush_bids, step 2: chain_buffer.remove(&auction_id) under the chain's buffer
\* mutex; no list ends the flush.
FlushTake(f) ==
    /\ fpc[f] = "take"
    /\ IF bid_buffer[FlushChain(f)][fid[f][1]] = <<>>
       THEN /\ fpc' = [ fpc EXCEPT ![f] = "idle" ]
            /\ fid' = [ fid EXCEPT ![f] = None ]
            /\ UNCHANGED <<fbids, bid_buffer>>
       ELSE /\ fbids' = [ fbids EXCEPT ![f] = bid_buffer[FlushChain(f)][fid[f][1]] ]
            /\ bid_buffer' = [ bid_buffer EXCEPT ![FlushChain(f)][fid[f][1]] = <<>> ]
            /\ fpc' = [ fpc EXCEPT ![f] = "submit" ]
            /\ UNCHANGED fid
    /\ UNCHANGED <<now, auction_queues, n_submitted, worker, sending, bus, ongoing_auctions,
                   spc, snext, cpc, cmsg, reply, accepted, ended_sent, sret, last_pop,
                   in_flight, flush_tasks, n_stored, store_log, passed, mgrvars, regvars>>

\* flush_bids, step 3: auction_manager.submit_bid_batch(chain_id, auction_id,
\* bids_to_flush); the result is returned to the task loop, which logs an error.
FlushSubmit(f) ==
    /\ fpc[f] = "submit"
    /\ manager_submit_bid_batch(FlushChain(f), fid[f][1], fbids[f])
    /\ passed' = [ passed EXCEPT ![FlushChain(f)][fid[f][1]] = Append(@, fbids[f]) ]
    /\ fpc' = [ fpc EXCEPT ![f] = "idle" ]
    /\ fid' = [ fid EXCEPT ![f] = None ]
    /\ fbids' = [ fbids EXCEPT ![f] = <<>> ]
    /\ UNCHANGED <<bid_buffer, flush_tasks, n_stored, store_log>>

\* ------------------------------------------------------------------ clock

\* current_unix_ms() advances.
AdvanceClock ==
    /\ now < MaxTime
    /\ now' = now + 1
    /\ UNCHANGED <<auction_queues, n_submitted, worker, sending, bus, ongoing_auctions,
                   spc, snext, cpc, cmsg, reply, accepted, ended_sent,
                   sret, last_pop, in_flight, bidvars, mgrvars, regvars>>

\* ------------------------------------------------------------------ chain registration

\* Concurrent callers of register_chain.
NumRegCallers == 2
RegCallers == 1..NumRegCallers

\* The chains of the registries: those registered at construction and one more.
RegChains == Chains \cup { Cardinality(Chains) + 1 }

\* The ChainInfo values a register_chain caller may give.
NewChainInfos ==
    { [ gas_limit |-> g, registered_sellers |-> Sellers ] : g \in GasLimit..(GasLimit + 1) }

\* The offers submitted while chains are being registered.
RaceInfos ==
    { AuctionInfoNew(c, b, s, GasLimit, 0, MaxTime) :
        c \in RegChains, b \in Blocks, s \in Sellers \cup {"T"} }

\* ChainRegistry::validate_chain_id
validate_chain_id(chain_id) ==
    chain_id \in DOMAIN chain_registry /\ chain_registry[chain_id] # None

\* ChainRegistry::is_valid_seller
is_valid_seller(chain_id, seller) ==
    /\ validate_chain_id(chain_id)
    /\ seller \in chain_registry[chain_id][1].registered_sellers

\* ChainRegistry::get_chain_ids
get_chain_ids == { c \in DOMAIN chain_registry : chain_registry[c] # None }

\* A ChainRegistry::register_chain that replaces the info of a registered chain.
RegisterChainInfo_Overwrites(r, chain_id, chain_info) ==
    /\ rpc[r] = "idle"
    /\ chain_registry' = [ chain_registry EXCEPT ![chain_id] = Some(chain_info) ]
    /\ IF validate_chain_id(chain_id)
       THEN /\ rret' = [ rret EXCEPT ![r] = "ChainAlreadyRegistered" ]
            /\ UNCHANGED <<rpc, rchain>>
       ELSE /\ rpc' = [ rpc EXCEPT ![r] = "queue" ]
            /\ rchain' = [ rchain EXCEPT ![r] = Some(chain_id) ]
            /\ rret' = [ rret EXCEPT ![r] = "none" ]
    /\ UNCHANGED <<queue_registry, vpc, vinfo, vret, enginevars, bidregvars>>

\* RegistryService::register_chain, first block: ChainRegistry::register_chain
\* under the chain registry's write lock; its error ends the call.
RegisterChainInfo(r, chain_id, chain_info) ==
    /\ rpc[r] = "idle"
    /\ IF validate_chain_id(chain_id)
       THEN /\ rret' = [ rret EXCEPT ![r] = "ChainAlreadyRegistered" ]
            /\ UNCHANGED <<chain_registry, rpc, rchain>>
       ELSE /\ chain_registry' = [ chain_registry EXCEPT ![chain_id] = Some(chain_info) ]
            /\ rpc' = [ rpc EXCEPT ![r] = "queue" ]
            /\ rchain' = [ rchain EXCEPT ![r] = Some(chain_id) ]
            /\ rret' = [ rret EXCEPT ![r] = "none" ]
    /\ UNCHANGED <<queue_registry, vpc, vinfo, vret, enginevars, bidregvars>>

\* RegistryService::register_chain, second block: AuctionRegistry::register_chain
\* under the auction registry's write lock; its result is the call's result.
RegisterChainQueue(r) ==
    /\ rpc[r] = "queue"
    /\ IF queue_registry[rchain[r][1]] # None
       THEN /\ rret' = [ rret EXCEPT ![r] = "ChainAlreadyRegistered" ]
            /\ UNCHANGED queue_registry
       ELSE /\ queue_registry' = [ queue_registry EXCEPT ![rchain[r][1]] = Some(<<>>) ]
            /\ rret' = [ rret EXCEPT ![r] = "Ok" ]
    /\ rpc' = [ rpc EXCEPT ![r] = "idle" ]
    /\ rchain' = [ rchain EXCEPT ![r] = None ]
    /\ UNCHANGED <<chain_registry, vpc, vinfo, vret, enginevars, bidregvars>>

\* RegistryService::submit_auction_info, first step: validate_auction_info under
\* the chain registry's read lock; an error ends the call.
ValidateAuctionInfo(auction_info) ==
    /\ vpc = "idle"
    /\ queue_registry[auction_info.chain_id] # None =>
          Len(queue_registry[auction_info.chain_id][1]) < MaxSubmissions
    /\ IF ~validate_chain_id(auction_info.chain_id)
       THEN vret' = "InvalidChainId" /\ UNCHANGED <<vpc, vinfo>>
       ELSE IF ~is_valid_seller(auction_info.chain_id, auction_info.seller_address)
       THEN vret' = "SellerNotRegistered" /\ UNCHANGED <<vpc, vinfo>>
       ELSE vpc' = "store" /\ vinfo' = Some(auction_info) /\ vret' = "none"
    /\ UNCHANGED <<chain_registry, queue_registry, rpc, rchain, rret, enginevars, bidregvars>>

\* RegistryService::submit_auction_info, second step:
\* AuctionRegistry::store_auction_info under the auction registry's write lock.
StoreAuctionInfo ==
    /\ vpc = "store"
    /\ IF queue_registry[vinfo[1].chain_id] = None
       THEN /\ vret' = "InvalidChainId"
            /\ UNCHANGED queue_registry
       ELSE /\ queue_registry' = [ queue_registry EXCEPT ![vinfo[1].chain_id] =
                                     Some(HeapPush(@[1], vinfo[1])) ]
            /\ vret' = "Ok"
    /\ vpc' = "idle"
    /\ vinfo' = None
    /\ UNCHANGED <<chain_registry, rpc, rchain, rret, enginevars, bidregvars>>

\* ------------------------------------------------------------------ bid registry

\* The bids one chain of the BidRegistry may hold, taken or not.
MaxRegistryBids == 3

\* The result of a BidRegistry call: Ok with the value returned, or the error.
Ok(value) == [ ok |-> TRUE, value |-> value, error |-> "none" ]
Err(error) == [ ok |-> FALSE, value |-> <<>>, error |-> error ]

\* BidRegistry::get_bids
get_bids(chain_id) == registry_bids[chain_id]

\* BidRegistry::add_chain
add_chain(chain_id) ==
    /\ IF registry_bids[chain_id] # None
       THEN /\ bret' = Err("ChainAlreadyRegistered")
            /\ UNCHANGED <<registry_bids, processing_bids>>
       ELSE /\ registry_bids' = [ registry_bids EXCEPT ![chain_id] = Some(<<>>) ]
            /\ processing_bids' = [ processing_bids EXCEPT ![chain_id] = <<>> ]
            /\ bret' = Ok(<<>>)
    /\ UNCHANGED <<added, chainvars, enginevars>>

\* An add_bid that puts the bid in front of the chain's list.
add_bid_Front(chain_id, bid) ==
    /\ IF registry_bids[chain_id] # None
       THEN /\ registry_bids' = [ registry_bids EXCEPT ![chain_id] = Some(<<bid>> \o @[1]) ]
            /\ added' = [ added EXCEPT ![chain_id] = Append(@, bid) ]
            /\ bret' = Ok(<<>>)
       ELSE /\ bret' = Err("InvalidChainId")
            /\ UNCHANGED <<registry_bids, added>>
    /\ UNCHANGED <<processing_bids, chainvars, enginevars>>

\* BidRegistry::add_bid
add_bid(chain_id, bid) ==
    /\ IF registry_bids[chain_id] # None
       THEN /\ registry_bids' = [ registry_bids EXCEPT ![chain_id] = Some(Append(@[1], bid)) ]
            /\ added' = [ added EXCEPT ![chain_id] = Append(@, bid) ]
            /\ bret' = Ok(<<>>)
       ELSE /\ bret' = Err("InvalidChainId")
            /\ UNCHANGED <<registry_bids, added>>
    /\ UNCHANGED <<processing_bids, chainvars, enginevars>>

\* BidRegistry::take_bids_for_processing: mem::take leaves an empty Vec, and the
\* taken bids are appended to the chain's processing list.
take_bids_for_processing(chain_id) ==
    /\ IF registry_bids[chain_id] # None
       THEN /\ registry_bids' = [ registry_bids EXCEPT ![chain_id] = Some(<<>>) ]
            /\ processing_bids' = [ processing_bids EXCEPT ![chain_id] = @ \o registry_bids[chain_id][1] ]
            /\ added' = [ added EXCEPT ![chain_id] = <<>> ]
            /\ bret' = Ok(registry_bids[chain_id][1])
       ELSE /\ bret' = Err("InvalidChainId")
            /\ UNCHANGED <<registry_bids, processing_bids, added>>
    /\ UNCHANGED <<chainvars, enginevars>>

\* BidRegistry::clear_processed_bids
clear_processed_bids(chain_id) ==
    /\ processing_bids' = [ processing_bids EXCEPT ![chain_id] = <<>> ]
    /\ bret' = Ok(<<>>)
    /\ UNCHANGED <<registry_bids, added, chainvars, enginevars>>

\* ------------------------------------------------------------------ specification

\* The batches a caller of submit_bid_batch may hand over.
Batches ==
    { <<b>> : b \in { x \in AllBids : x.bidder_addr = "a" } }
    \cup { <<b1, b2>> : b1 \in { x \in AllBids : x.bidder_addr = "a" },
                        b2 \in { x \in AllBids : x.bidder_addr = "b" } }

\* The run's bound on the bids of one auction: a call that is accepted leaves at
\* most `room` bids.
HasRoom(c, auction_id, n, room) ==
    SubmitBidResult(c, auction_id) = "Ok" => Len(worker[c][1].bids) + n <= room

\* The auction ids a bidder may name: the worker's current auction and one other
\* (submit_bid only compares the id with the current one).
CallIds(c) ==
    IF worker[c] = None THEN { CHOOSE id \in AllIds : TRUE }
    ELSE { worker[c][1].auction_info.id }
         \cup { CHOOSE id \in AllIds : id # worker[c][1].auction_info.id }

\* The bids to try with a call: every bid when the call is accepted, one bid when
\* it is refused (a refused call does not look at the bid).
CallBids(c, auction_id, all) ==
    IF SubmitBidResult(c, auction_id) = "Ok" THEN all ELSE { CHOOSE b \in all : TRUE }

\* The state after construction but for the manager's workers.
BaseInit ==
    /\ now = 0
    /\ auction_queues = [ c \in Chains |-> <<>> ]
    /\ n_submitted = 0
    /\ worker = [ c \in Chains |-> None ]
    /\ sending = [ c \in Chains |-> None ]
    /\ bus = <<>>
    /\ ongoing_auctions = [ c \in Chains |-> None ]
    /\ spc = [ s \in Starters |-> "idle" ]
    /\ snext = [ s \in Starters |-> None ]
    /\ cpc = "recv"
    /\ cmsg = None
    /\ reply = "none"
    /\ accepted = [ c \in Chains |-> <<>> ]
    /\ ended_sent = [ id \in AllIds |-> 0 ]
    /\ sret = [ s \in Starters |-> InCall ]
    /\ last_pop = [ c \in Chains |-> None ]
    /\ in_flight = [ c \in Chains |-> <<>> ]
    /\ bid_buffer = [ c \in Chains |-> [ id \in AllIds |-> <<>> ] ]
    /\ flush_tasks = [ c \in Chains |-> {1} ]
    /\ n_stored = 0
    /\ fpc = [ f \in Flushers |-> "idle" ]
    /\ fid = [ f \in Flushers |-> None ]
    /\ fbids = [ f \in Flushers |-> <<>> ]
    /\ store_log = [ c \in Chains |-> [ id \in AllIds |-> <<>> ] ]
    /\ passed = [ c \in Chains |-> [ id \in AllIds |-> <<>> ] ]
    /\ chain_registry = [ c \in RegChains |->
                            IF c \in Chains THEN Some(chain_info_map[c]) ELSE None ]
    /\ queue_registry = [ c \in RegChains |-> IF c \in Chains THEN Some(<<>>) ELSE None ]
    /\ rpc = [ r \in RegCallers |-> "idle" ]
    /\ rchain = [ r \in RegCallers |-> None ]
    /\ rret = [ r \in RegCallers |-> "none" ]
    /\ vpc = "idle"
    /\ vinfo = None
    /\ vret = "none"
    /\ registry_bids = [ c \in RegChains |-> None ]
    /\ processing_bids = [ c \in RegChains |-> <<>> ]
    /\ added = [ c \in RegChains |-> <<>> ]
    /\ bret = Ok(<<>>)

\* AuctionManager::new after the chains were registered: a worker is created and
\* run for every chain.
Init ==
    /\ BaseInit
    /\ workers = Chains
    /\ wpc = [ w \in WorkerCallers |-> "idle" ]
    /\ created = [ c \in Chains |-> 1 ]
    /\ spawned = [ c \in Chains |-> 1 ]

\* AuctionManager::new before the chain was registered: get_chain_ids() was empty
\* and no worker was created.
LateInit ==
    /\ BaseInit
    /\ workers = {}
    /\ wpc = [ w \in WorkerCallers |-> "idle" ]
    /\ created = [ c \in Chains |-> 0 ]
    /\ spawned = [ c \in Chains |-> 0 ]

\* The steps of the system with `callers` the concurrent callers of
\* start_next_auction and at most `room` bids per auction.
NextWith(callers, room) ==
    \/ AdvanceClock
    \/ \E info \in AllInfos : SubmitAuctionInfo(info)
    \/ \E s \in callers, c \in Chains : StartPeek(s, c)
    \/ \E s \in callers : StartCheck(s)
    \/ \E s \in callers : StartPop(s)
    \/ \E s \in callers : StartGetWorker(s)
    \/ \E s \in callers : StartAuction(s)
    \/ \E s \in callers : StartInsert(s)
    \/ \E c \in Chains : ProcessAuction(c)
    \/ \E c \in Chains : SendCompletes(c)
    \/ \E c \in Chains : \E id \in CallIds(c) : \E bid \in CallBids(c, id, AllBids) :
          HasRoom(c, id, 1, room) /\ SubmitBid(c, id, bid)
    \/ \E c \in Chains : \E id \in CallIds(c) : \E batch \in CallBids(c, id, Batches) :
          HasRoom(c, id, Len(batch), room) /\ SubmitBidBatch(c, id, batch)
    \/ Recv
    \/ HandleRead
    \/ HandleRemove

\* One scheduler calls start_next_auction; bidders fill the auction.
Next == NextWith({1}, MaxBids)

Spec == Init /\ [][Next]_vars

\* Several callers of start_next_auction run concurrently with offers, ticks and
\* the consumer; no bid is taken.
RaceNext == NextWith(Starters, 0)

RaceSpec == Init /\ [][RaceNext]_vars

\* The bid service in front of the worker: bids come in through store_bid and
\* reach the worker through the flush tasks; one scheduler starts the auctions.
\* `tasks` are the flush tasks that may run, `offers` bounds the offers submitted.
BidNextWith(tasks, offers) ==
    \/ AdvanceClock
    \/ \E info \in AllInfos : n_submitted < offers /\ SubmitAuctionInfo(info)
    \/ \E c \in Chains : StartPeek(1, c)
    \/ StartCheck(1)
    \/ StartPop(1)
    \/ StartGetWorker(1)
    \/ StartAuction(1)
    \/ StartInsert(1)
    \/ \E c \in Chains : ProcessAuction(c)
    \/ \E c \in Chains : SendCompletes(c)
    \/ Recv
    \/ HandleRead
    \/ HandleRemove
    \/ \E c \in Chains : \E id \in KnownIds(c), bid \in StoreBids : StoreBid(c, id, bid)
    \/ \E c \in Chains : Cardinality(flush_tasks[c]) < Cardinality(tasks) /\ AddChain(c)
    \/ \E f \in tasks : FlushGetId(f)
    \/ \E f \in tasks : FlushTake(f)
    \/ \E f \in tasks : FlushSubmit(f)

BidNext == BidNextWith(Flushers, BidOffers)

BidSpec == Init /\ [][BidNext]_vars

\* A chain registered after the manager was built: callers of
\* start_worker_for_chain race with offers, the scheduler, bidders and the consumer.
LateNext ==
    \/ AdvanceClock
    \/ \E info \in AllInfos : n_submitted < LateOffers /\ SubmitAuctionInfo(info)
    \/ \E c \in Chains : StartPeek(1, c)
    \/ StartCheck(1)
    \/ StartPop(1)
    \/ StartGetWorker(1)
    \/ StartAuction(1)
    \/ StartInsert(1)
    \/ \E c \in Chains : ProcessAuction(c)
    \/ \E c \in Chains : SendCompletes(c)
    \/ \E c \in Chains : \E id \in CallIds(c) : \E bid \in CallBids(c, id, AllBids) :
          HasRoom(c, id, 1, MaxBids) /\ SubmitBid(c, id, bid)
    \/ Recv
    \/ HandleRead
    \/ HandleRemove
    \/ \E w \in WorkerCallers : WorkerCheck(w)
    \/ \E w \in WorkerCallers : WorkerInsert(w)
    \/ \E w \in WorkerCallers : WorkerSpawn(w)
    \/ \E w \in WorkerCallers : WorkerHandle(w)

LateSpec == LateInit /\ [][LateNext]_vars

\* The registry and the scheduler alone: sellers submit offers of every kind and
\* start_next_auction takes them off the queue.
RegistryNext ==
    \/ AdvanceClock
    \/ \E info \in RegistryInfos : SubmitAuctionInfo(info)
    \/ \E c \in Chains : StartPeek(1, c)
    \/ StartCheck(1)
    \/ StartPop(1)
    \/ StartGetWorker(1)
    \/ StartAuction(1)
    \/ StartInsert(1)

RegistrySpec == Init /\ [][RegistryNext]_vars

\* The worker loop, the consumer task and every call in progress keep running;
\* the clock, new offers, new bids and new start_next_auction calls may stop.
Fairness ==
    /\ \A c \in Chains : WF_vars(ProcessAuction(c))
    /\ \A c \in Chains : WF_vars(SendCompletes(c))
    /\ WF_vars(Recv)
    /\ WF_vars(HandleRead)
    /\ WF_vars(HandleRemove)
    /\ WF_vars(StartCheck(1))
    /\ WF_vars(StartPop(1))
    /\ WF_vars(StartGetWorker(1))
    /\ WF_vars(StartAuction(1))
    /\ WF_vars(StartInsert(1))

FairSpec == Init /\ [][Next]_vars /\ Fairness

\* One flush task and one stored bid, next to offers that may start at once: every
\* party that takes the worker's state lock runs beside the tick loop and the
\* consumer.
LockNext ==
    \/ AdvanceClock
    \/ \E info \in AllInfos : info.start_time = 0 /\ SubmitAuctionInfo(info)
    \/ \E c \in Chains : StartPeek(1, c)
    \/ StartCheck(1)
    \/ StartPop(1)
    \/ StartGetWorker(1)
    \/ StartAuction(1)
    \/ StartInsert(1)
    \/ \E c \in Chains : ProcessAuction(c)
    \/ \E c \in Chains : SendCompletes(c)
    \/ Recv
    \/ HandleRead
    \/ HandleRemove
    \/ \E c \in Chains : \E id \in KnownIds(c), bid \in StoreBids :
          n_stored < 1 /\ StoreBid(c, id, bid)
    \/ FlushGetId(1)
    \/ FlushTake(1)
    \/ FlushSubmit(1)

\* The consumer task and every call in progress keep running. tokio's RwLock
\* queues its waiters first in, first out, so a call waiting for the worker's
\* state lock gets it once the lock has been released often enough.
LockFairness ==
    /\ \A c \in Chains : WF_vars(SendCompletes(c))
    /\ WF_vars(Recv)
    /\ WF_vars(HandleRead)
    /\ WF_vars(HandleRemove)
    /\ WF_vars(StartCheck(1))
    /\ WF_vars(StartPop(1))
    /\ WF_vars(StartGetWorker(1))
    /\ SF_vars(StartAuction(1))
    /\ WF_vars(StartInsert(1))
    /\ WF_vars(FlushTake(1))
    /\ SF_vars(FlushSubmit(1))

LockSpec == Init /\ [][LockNext]_vars /\ LockFairness

\* The worker's tick loop, the wall clock and the consumer task keep running;
\* offers, bids and the calls of start_next_auction may stop at any point.
TickFairness ==
    /\ WF_vars(AdvanceClock)
    /\ \A c \in Chains : WF_vars(ProcessAuction(c))
    /\ \A c \in Chains : WF_vars(SendCompletes(c))
    /\ WF_vars(Recv)
    /\ WF_vars(HandleRead)
    /\ WF_vars(HandleRemove)

TickSpec == Init /\ [][LockNext]_vars /\ TickFairness

\* The buffer and its one flush task next to the scheduler: bids are stored for
\* queued and started auctions while the flush runs; no tick and no consumer.
FlushNext ==
    \/ \E info \in AllInfos : info.start_time = 0 /\ SubmitAuctionInfo(info)
    \/ \E c \in Chains : StartPeek(1, c)
    \/ StartCheck(1)
    \/ StartPop(1)
    \/ StartGetWorker(1)
    \/ StartAuction(1)
    \/ StartInsert(1)
    \/ \E c \in Chains : \E id \in KnownIds(c), bid \in StoreBids : StoreBid(c, id, bid)
    \/ FlushGetId(1)
    \/ FlushTake(1)
    \/ FlushSubmit(1)

FlushSpec == Init /\ [][FlushNext]_vars

\* Bids at the admission limit come in on both paths: straight through the
\* manager's submit_bid, and through store_bid and the flush task.
AdmissionNext ==
    \/ \E info \in AllInfos : info.start_time = 0 /\ SubmitAuctionInfo(info)
    \/ \E c \in Chains : StartPeek(1, c)
    \/ StartCheck(1)
    \/ StartPop(1)
    \/ StartGetWorker(1)
    \/ StartAuction(1)
    \/ StartInsert(1)
    \/ \E c \in Chains : \E id \in CallIds(c) : \E bid \in CallBids(c, id, LargeBids) :
          HasRoom(c, id, 1, MaxBids) /\ SubmitBid(c, id, bid)
    \/ \E c \in Chains : \E id \in KnownIds(c), bid \in LargeBids : StoreBid(c, id, bid)
    \/ FlushGetId(1)
    \/ FlushTake(1)
    \/ FlushSubmit(1)

AdmissionSpec == Init /\ [][AdmissionNext]_vars

\* Callers of register_chain beside a caller of submit_auction_info.
ChainRegNext ==
    \/ \E r \in RegCallers, c \in RegChains, info \in NewChainInfos : RegisterChainInfo(r, c, info)
    \/ \E r \in RegCallers : RegisterChainQueue(r)
    \/ \E info \in RaceInfos : ValidateAuctionInfo(info)
    \/ StoreAuctionInfo

ChainRegSpec == Init /\ [][ChainRegNext]_vars

\* The calls of one owner of a BidRegistry, in any order.
BidRegistryNext ==
    \/ \E c \in RegChains : add_chain(c)
    \/ \E c \in RegChains : \E bid \in StoreBids :
          (registry_bids[c] # None => Len(registry_bids[c][1]) + Len(processing_bids[c]) < MaxRegistryBids)
             /\ add_bid(c, bid)
    \/ \E c \in RegChains : take_bids_for_processing(c)
    \/ \E c \in RegChains : clear_processed_bids(c)

BidRegistrySpec == Init /\ [][BidRegistryNext]_vars

\* ------------------------------------------------------------------ properties

HasAuction(c) == worker[c] # None
State(c) == worker[c][1]
Ended(c) == HasAuction(c) /\ State(c).is_ended
Running(c) == HasAuction(c) /\ ~State(c).is_ended

\* s and t hold the same bids, each as often.
SameBids(s, t) ==
    /\ Len(s) = Len(t)
    /\ \A b \in AllBids :
         Cardinality({ i \in 1..Len(s) : s[i] = b }) = Cardinality({ i \in 1..Len(t) : t[i] = b })

\* C1: once an auction's is_ended is true, no operation changes its state (bids,
\* highest_bid, winner); the worker's state changes again only by being replaced
\* with the fresh state of a started auction.
C1_EndedStateFrozen ==
    [][ \A c \in Chains :
          Ended(c) =>
            \/ worker'[c] = worker[c]
            \/ /\ worker'[c] # None
               /\ worker'[c][1] = AuctionStateNew(worker'[c][1].auction_info) ]_vars

\* C1's case: an ended auction with bids, after a submit_bid that came too late.
C1_Witness ==
    \E c \in Chains : Ended(c) /\ State(c).bids # <<>> /\ reply = "AuctionEnded"

\* C2: when is_ended is true and bids is not empty, highest_bid is the maximal
\* bid_amount of bids and winner is the bidder of a bid with that amount.
C2_EndedHighestIsMax ==
    \A c \in Chains :
        (Ended(c) /\ State(c).bids # <<>>) =>
            /\ State(c).highest_bid = MaxOf(Amounts(State(c).bids))
            /\ State(c).winner # None
            /\ \E i \in 1..Len(State(c).bids) :
                 /\ State(c).bids[i].bid_amount = State(c).highest_bid
                 /\ State(c).bids[i].bidder_addr = State(c).winner[1]

\* C2's case: an ended auction whose highest bid was not the first one submitted.
C2_Witness ==
    \E c \in Chains :
        /\ Ended(c)
        /\ Len(accepted[c]) >= 2
        /\ accepted[c][1].bid_amount < accepted[c][2].bid_amount

FirstMaxIndex(s) ==
    CHOOSE i \in 1..Len(s) :
        /\ s[i].bid_amount = MaxOf(Amounts(s))
        /\ \A j \in 1..(i - 1) : s[j].bid_amount # MaxOf(Amounts(s))

\* C3: when an auction has ended and several bids share the maximal amount, winner
\* is the bidder of the one appended first.
C3_TieFirstArrivalWins ==
    \A c \in Chains :
        (Ended(c) /\ accepted[c] # <<>>) =>
            State(c).winner = Some(accepted[c][FirstMaxIndex(accepted[c])].bidder_addr)

\* The step in which a tick detects the end of chain c's auction.
EndDetected(c) == Running(c) /\ worker'[c] # None /\ worker'[c][1].is_ended

\* C4: a submit_bid for the current auction that takes the state lock before the
\* tick that detects the end returns ok and appends the bid, and that tick computes
\* highest_bid and winner over all the bids appended so far; a submit_bid that
\* takes the lock after that tick fails with AuctionEnded and leaves bids unchanged.
C4_LockOrderDecides ==
    [][ \A c \in Chains :
          /\ \A bid \in AllBids :
               (HasAuction(c) /\ SubmitBid(c, State(c).auction_info.id, bid)) =>
                  IF State(c).is_ended
                  THEN reply' = "AuctionEnded" /\ worker'[c] = worker[c]
                  ELSE /\ reply' = "Ok"
                       /\ worker'[c] = Some([ State(c) EXCEPT !.bids = Append(@, bid) ])
          /\ EndDetected(c) =>
               /\ SameBids(worker'[c][1].bids, State(c).bids)
               /\ SameBids(State(c).bids, accepted[c])
               /\ State(c).bids # <<>> =>
                    /\ worker'[c][1].highest_bid = MaxOf(Amounts(accepted[c]))
                    /\ \E i \in 1..Len(accepted[c]) :
                         /\ accepted[c][i].bid_amount = worker'[c][1].highest_bid
                         /\ Some(accepted[c][i].bidder_addr) = worker'[c][1].winner ]_vars

\* C4's case: the bid that got in last before the end was detected is the winner,
\* and a later submit_bid was refused.
C4_Witness ==
    \E c \in Chains :
        /\ Ended(c)
        /\ reply = "AuctionEnded"
        /\ Len(accepted[c]) = 2
        /\ accepted[c][2].bid_amount > accepted[c][1].bid_amount
        /\ State(c).winner = Some(accepted[c][2].bidder_addr)

\* C5 as claimed: a submit_bid at a clock reading at or past the auction's end_time
\* fails with AuctionEnded and appends nothing.
C5_NoBidAtOrPastEndTime ==
    [][ \A c \in Chains : \A id \in CallIds(c), bid \in AllBids :
          (HasAuction(c) /\ now >= State(c).auction_info.end_time /\ SubmitBid(c, id, bid)) =>
             reply' = "AuctionEnded" /\ worker'[c] = worker[c] ]_vars

\* C5, amended: a submit_bid after a tick has marked the auction ended fails with
\* AuctionEnded and appends nothing, so the winner comes from the bids accepted
\* before that tick; at or past end_time but before that tick, a submit_bid for
\* the current auction is still accepted and appended.
C5_NoBidAfterEndDetected ==
    [][ \A c \in Chains :
          /\ \A id \in CallIds(c), bid \in AllBids :
               (HasAuction(c) /\ now >= State(c).auction_info.end_time
                  /\ SubmitBid(c, id, bid)) =>
                  IF State(c).is_ended
                  THEN reply' = "AuctionEnded" /\ worker'[c] = worker[c]
                  ELSE IF id = State(c).auction_info.id
                  THEN reply' = "Ok" /\ worker'[c][1].bids = Append(State(c).bids, bid)
                  ELSE reply' = "InvalidAuctionId" /\ worker'[c] = worker[c]
          /\ (Ended(c) /\ worker'[c] = worker[c]) => accepted'[c] = accepted[c]
          /\ (Ended(c) /\ State(c).winner # None) =>
               \E i \in 1..Len(accepted[c]) :
                  State(c).winner = Some(accepted[c][i].bidder_addr) ]_vars

\* C5's case: an auction started at or past its end_time took a bid, which won
\* when the next tick ended the auction.
C5_Witness ==
    \E c \in Chains :
        /\ Ended(c)
        /\ State(c).auction_info.start_time >= State(c).auction_info.end_time
        /\ State(c).winner # None

\* get_ongoing_auction_id(c) returns the id `id`.
OngoingIs(c, id) == get_ongoing_auction_id(c) = Some(id)

\* C6: after the worker of chain c has marked auction A ended, the manager
\* eventually has no ongoing entry for A: get_ongoing_auction_id(c) stops
\* returning A's id.
C6_EndedEventuallyNotOngoing ==
    \A c \in Chains, id \in AllIds :
        (Ended(c) /\ State(c).auction_info.id = id) ~> ~OngoingIs(c, id)

\* No undelivered message for chain c, and neither a start_next_auction call nor
\* the manager's message handler is mid-way.
Quiet(c) ==
    /\ \A i \in 1..Len(bus) : bus[i].chain_id # c
    /\ sending[c] = None
    /\ cpc = "recv"
    /\ \A s \in Starters : spc[s] = "idle"

\* C7: in a quiet state ongoing_auctions[c] is defined iff worker c holds a state
\* with is_ended = false, and then the two auction ids are equal.
C7_QuietOngoingIffRunning ==
    \A c \in Chains :
        Quiet(c) =>
            /\ (ongoing_auctions[c] # None) <=> Running(c)
            /\ ongoing_auctions[c] # None =>
                 ongoing_auctions[c][1].id = State(c).auction_info.id

\* C8: the auction a start_next_auction call removes from the queue is the one it
\* compared with the clock and hands to the worker, and its start_time is not
\* after the clock.
C8_PopsWhatItChecked ==
    [][ \A s \in Starters :
          StartPop(s) =>
             LET q == auction_queues[snext[s][1].chain_id]
             IN  /\ q # <<>>
                 /\ q[1] = snext[s][1]
                 /\ q[1].start_time <= now ]_vars

\* C9: the entry ongoing_auctions[c] is removed only by an AuctionEnded message
\* for chain c that carries the id of the removed entry.
C9_EndedRemovesOnlyItsOwn ==
    [][ \A c \in Chains :
          (ongoing_auctions[c] # None /\ ongoing_auctions'[c] = None) =>
             /\ cmsg # None
             /\ cmsg[1].chain_id = c
             /\ cmsg[1].auction_id = ongoing_auctions[c][1].id ]_vars

\* C10: a worker sends at most one AuctionEnded message with a given auction id.
C10_EndedSentAtMostOnce == \A id \in AllIds : ended_sent[id] <= 1

\* How often x is in the queue q.
Occurrences(q, x) == Cardinality({ i \in 1..Len(q) : q[i] = x })

\* C11: a start_next_auction(c) call that finds the minimum-start_time auction X
\* at the head with start_time <= now goes on to remove exactly X from the queue,
\* leaves the worker with a fresh AuctionState for X (highest_bid 0, no winner, no
\* bids, not ended), sets ongoing_auctions[c] to X and returns X's id, which
\* get_ongoing_auction_id(c) then returns.
C11_StartNextAuctionStartsHead ==
    [][ \A s \in Starters :
          /\ \A c \in Chains :
               (StartPeek(s, c) /\ auction_queues[c] # <<>>) =>
                  /\ snext'[s] # None
                  /\ \A i \in 1..Len(auction_queues[c]) :
                       snext'[s][1].start_time <= auction_queues[c][i].start_time
          /\ (StartCheck(s) /\ snext[s][1].start_time <= now) => spc'[s] = "pop"
          /\ StartPop(s) =>
               \A x \in AllInfos :
                  Occurrences(auction_queues'[snext[s][1].chain_id], x)
                    = Occurrences(auction_queues[snext[s][1].chain_id], x)
                        - (IF x = snext[s][1] THEN 1 ELSE 0)
          /\ StartAuction(s) =>
               worker'[snext[s][1].chain_id] =
                  Some([ auction_info |-> snext[s][1], highest_bid |-> 0, winner |-> None,
                         bids |-> <<>>, is_ended |-> FALSE ])
          /\ StartInsert(s) =>
               /\ ongoing_auctions'[snext[s][1].chain_id] = snext[s]
               /\ sret'[s] = Returned(Some(snext[s][1].id))
               /\ \E c \in Chains :
                    /\ c = snext[s][1].chain_id
                    /\ get_ongoing_auction_id(c)' = Some(snext[s][1].id) ]_vars

\* C12: a start_next_auction call whose peeked head has start_time > now returns
\* none and leaves the registry queue, the worker's state and ongoing_auctions as
\* they are.
C12_NotYetStartableIsNoOp ==
    [][ \A s \in Starters :
          /\ \A c \in Chains :
               StartPeek(s, c) => UNCHANGED <<auction_queues, worker, ongoing_auctions>>
          /\ (StartCheck(s) /\ now < snext[s][1].start_time) =>
               /\ sret'[s] = Returned(None)
               /\ spc'[s] = "idle"
               /\ UNCHANGED <<auction_queues, worker, ongoing_auctions>> ]_vars

\* C12's case: a call returned none while the head of the queue is not yet due.
C12_Witness ==
    \E c \in Chains :
        /\ sret[1] = Returned(None)
        /\ auction_queues[c] # <<>>
        /\ auction_queues[c][1].start_time > now

\* C13: start_next_auction(c) on an empty queue returns none and changes neither
\* the registry nor the worker nor ongoing_auctions, so the next call finds the
\* same.
C13_EmptyQueueIsNoOp ==
    [][ \A s \in Starters, c \in Chains :
          (StartPeek(s, c) /\ get_next_auction_info(c) = None) =>
             /\ sret'[s] = Returned(None)
             /\ UNCHANGED <<auction_queues, worker, ongoing_auctions, spc, snext>>
             /\ get_next_auction_info(c)' = None ]_vars

\* C13's case: after an auction was started and the queue ran empty, a call
\* returned none.
C13_Witness ==
    \E c \in Chains :
        /\ sret[1] = Returned(None)
        /\ auction_queues[c] = <<>>
        /\ ongoing_auctions[c] # None

\* The pop of a start_next_auction call that finds chain c's queue non-empty.
PopsFrom(s, c) == StartPop(s) /\ snext[s][1].chain_id = c /\ auction_queues[c] # <<>>

\* C14 as claimed: the auctions removed from a chain's queue by successive pops
\* have non-decreasing start_time.
C14_PopsNonDecreasing ==
    [][ \A s \in Starters, c \in Chains :
          (PopsFrom(s, c) /\ last_pop[c] # None) =>
             last_pop[c][1].start_time <= last_pop'[c][1].start_time ]_vars

\* C14, amended: every pop removes an auction whose start_time is minimal among
\* the auctions pending at that moment and leaves the others queued, so pops are
\* non-decreasing as long as no auction with an earlier start_time is submitted
\* after a pop.
C14_PopsMinimumOfPending ==
    [][ \A s \in Starters, c \in Chains :
          PopsFrom(s, c) =>
             /\ last_pop'[c] # None
             /\ \A i \in 1..Len(auction_queues[c]) :
                  last_pop'[c][1].start_time <= auction_queues[c][i].start_time
             /\ \A x \in AllInfos :
                  Occurrences(auction_queues'[c], x)
                    = Occurrences(auction_queues[c], x)
                        - (IF x = last_pop'[c][1] THEN 1 ELSE 0) ]_vars

\* C14's case: a pop took the earlier of two pending auctions and left the later.
C14_Witness ==
    \E c \in Chains :
        /\ last_pop[c] # None
        /\ Len(auction_queues[c]) = 1
        /\ last_pop[c][1].start_time < auction_queues[c][1].start_time

\* C15: among the pending auctions of a chain with the minimal start_time, the one
\* get_next_auction_info and pop_next_auction return has the smallest auction id.
C15_TieBrokenBySmallestId ==
    \A c \in Chains :
        get_next_auction_info(c) # None =>
            \A i \in 1..Len(auction_queues[c]) :
                auction_queues[c][i].start_time = get_next_auction_info(c)[1].start_time =>
                    get_next_auction_info(c)[1].id <= auction_queues[c][i].id

\* C16: submit_bid_batch either fails with NoAuctions, InvalidAuctionId or
\* AuctionEnded and leaves the worker's state as it is, or appends all bids of the
\* batch to the end of bids, in the given order and in one step under the state
\* lock.
C16_BatchAllOrNothing ==
    [][ \A c \in Chains : \A id \in CallIds(c), batch \in Batches :
          SubmitBidBatch(c, id, batch) =>
             IF ~HasAuction(c)
             THEN reply' = "NoAuctions" /\ worker'[c] = worker[c]
             ELSE IF Running(c) /\ State(c).auction_info.id = id
             THEN /\ reply' = "Ok"
                  /\ worker'[c] = Some([ State(c) EXCEPT !.bids = @ \o batch ])
             ELSE /\ reply' \in { "InvalidAuctionId", "AuctionEnded" }
                  /\ worker'[c] = worker[c] ]_vars

\* C16's case: a batch of two bids was accepted by a running auction that had no
\* bid before.
C16_Witness ==
    \E c \in Chains, batch \in Batches :
        /\ Running(c)
        /\ reply = "Ok"
        /\ Len(batch) = 2
        /\ State(c).bids = batch

\* The bids store_bid accepted for auction a of chain c, in store order.
Stored(c, a) == [ i \in 1..Len(store_log[c][a]) |-> store_log[c][a][i].bid ]

\* The last n elements of s.
Suffix(s, n) == SubSeq(s, Len(s) - n + 1, Len(s))

\* The bids buffered for auction a of chain c are there, no flush has taken them,
\* and each was stored while a was the ongoing auction of c.
StoredWhileOngoing(c, a) ==
    /\ bid_buffer[c][a] # <<>>
    /\ bid_buffer[c][a] = Suffix(Stored(c, a), Len(bid_buffer[c][a]))
    /\ \A i \in 1..Len(store_log[c][a]) :
         i > Len(store_log[c][a]) - Len(bid_buffer[c][a]) => store_log[c][a][i].ongoing

\* The take and the submission of a flush: the whole list buffered for the
\* auction is taken in store order and no list is left for it, and the list is
\* given to submit_bid_batch in one call.
TakesAndSubmitsWholeList(f) ==
    /\ (FlushTake(f) /\ bid_buffer[FlushChain(f)][fid[f][1]] # <<>>) =>
         /\ fbids'[f] = bid_buffer[FlushChain(f)][fid[f][1]]
         /\ fbids'[f] = Suffix(Stored(FlushChain(f), fid[f][1]), Len(fbids'[f]))
         /\ bid_buffer'[FlushChain(f)][fid[f][1]] = <<>>
         /\ \A a \in AllIds :
              a # fid[f][1] => bid_buffer'[FlushChain(f)][a] = bid_buffer[FlushChain(f)][a]
         /\ fpc'[f] = "submit"
    /\ FlushSubmit(f) =>
         /\ passed'[FlushChain(f)][fid[f][1]] =
               Append(passed[FlushChain(f)][fid[f][1]], fbids[f])
         /\ \A a \in AllIds :
              a # fid[f][1] => passed'[FlushChain(f)][a] = passed[FlushChain(f)][a]
         /\ fpc'[f] = "idle"

\* C17 as claimed: when bids were stored for auction a of chain c while a was
\* ongoing and no flush has taken them, the flush of c that starts next reads a
\* as the ongoing auction, takes a's list, gives it to submit_bid_batch(c, a, ...)
\* in one call with the bids in store order, and leaves no list for a in the
\* buffer.  (A flush that reads no ongoing auction returns without a trace, so
\* its first step is stated on the state it would start in.)
C17_NextFlushSubmitsStored ==
    [][ \A f \in Flushers :
          /\ \A a \in AllIds :
               StoredWhileOngoing(FlushChain(f), a) =>
                  /\ get_ongoing_auction_id(FlushChain(f)) = Some(a)
                  /\ FlushGetId(f) => fid'[f] = Some(a) /\ fpc'[f] = "take"
          /\ TakesAndSubmitsWholeList(f) ]_vars

\* C17, amended: a flush of c that finds a still the ongoing auction of c takes
\* a's whole list, gives it to submit_bid_batch(c, a, ...) in one call with the
\* bids in store order, and leaves no list for a; a flush that finds no ongoing
\* auction, or another one, submits nothing for a and leaves a's bids buffered.
C17_FlushSubmitsOngoingOnly ==
    [][ \A f \in Flushers :
          /\ \A a \in AllIds :
               FlushGetId(f) =>
                  /\ IF get_ongoing_auction_id(FlushChain(f)) = Some(a)
                     THEN fid'[f] = Some(a) /\ fpc'[f] = "take"
                     ELSE fid'[f] # Some(a)
                  /\ UNCHANGED <<bid_buffer, passed>>
          /\ TakesAndSubmitsWholeList(f) ]_vars

\* C17's case: two bids stored for the ongoing auction went to submit_bid_batch as
\* one batch, in store order, and the buffer holds no list for the auction.
C17_Witness ==
    \E c \in Chains, a \in AllIds :
        /\ Len(store_log[c][a]) = 2
        /\ store_log[c][a][1].bid # store_log[c][a][2].bid
        /\ passed[c][a] = << Stored(c, a) >>
        /\ bid_buffer[c][a] = <<>>

\* The insertion index of bid b at the worker of chain c.
AppendedAt(c, b) == CHOOSE k \in 1..Len(accepted[c]) : accepted[c][k] = b

\* b was appended to the worker of chain c.
Appended(c, b) == \E k \in 1..Len(accepted[c]) : accepted[c][k] = b

\* C18: when store_bid accepted b1 before b2 for the same chain and auction and
\* both were appended to the worker, b1 was appended before b2, also when
\* different flushes delivered them.
C18_StoreOrderKept ==
    \A c \in Chains, a \in AllIds :
        \A i, j \in 1..Len(store_log[c][a]) :
            ( /\ i < j
              /\ Stored(c, a)[i] # Stored(c, a)[j]
              /\ HasAuction(c)
              /\ State(c).auction_info.id = a
              /\ Appended(c, Stored(c, a)[i])
              /\ Appended(c, Stored(c, a)[j]) ) =>
                AppendedAt(c, Stored(c, a)[i]) < AppendedAt(c, Stored(c, a)[j])

\* How often bid b is in the sequence s.
Count(s, b) == Cardinality({ i \in 1..Len(s) : s[i] = b })

\* The batches of a sequence of batches, one after the other.
RECURSIVE Flatten(_)
Flatten(batches) ==
    IF batches = <<>> THEN <<>> ELSE Head(batches) \o Flatten(Tail(batches))

\* How often bid b is in the lists that flush tasks have taken for auction a of
\* chain c and not yet submitted.
CountTaken(c, a, b) ==
    LET holders == { f \in Flushers : FlushChain(f) = c /\ fpc[f] = "submit" /\ fid[f] = Some(a) }
        RECURSIVE Sum(_)
        Sum(fs) == IF fs = {} THEN 0
                   ELSE LET f == CHOOSE x \in fs : TRUE
                        IN  Count(fbids[f], b) + Sum(fs \ {f})
    IN  Sum(holders)

\* Every bid store_bid accepted is in exactly one place: still buffered, taken by
\* a flush that has not submitted yet, or passed to submit_bid_batch.
EachStoredBidInOnePlace ==
    \A c \in Chains, a \in AllIds, b \in AllBids :
        Count(Stored(c, a), b)
          = Count(bid_buffer[c][a], b) + CountTaken(c, a, b) + Count(Flatten(passed[c][a]), b)

\* C19: each bid accepted by store_bid is passed to submit_bid_batch at most once:
\* a flush removes the bids from the buffer before it submits them, only store_bid
\* puts a bid in the buffer, a failed submission leaves the buffer and the worker
\* as they are and drops the bids, and the worker never holds a bid more often
\* than it was passed.
C19_PassedAtMostOnce ==
    [][ /\ EachStoredBidInOnePlace'
        /\ \A c \in Chains, a \in AllIds :
             bid_buffer'[c][a] # bid_buffer[c][a] =>
                \/ bid_buffer'[c][a] = <<>>
                \/ /\ n_stored' = n_stored + 1
                   /\ \E b \in AllBids : bid_buffer'[c][a] = Append(bid_buffer[c][a], b)
        /\ \A f \in Flushers :
             (FlushSubmit(f) /\ reply' # "Ok") =>
                /\ UNCHANGED <<bid_buffer, worker>>
                /\ fbids'[f] = <<>>
                /\ fpc'[f] = "idle"
        /\ \A c \in Chains, b \in AllBids :
             HasAuction(c)' =>
                Count(worker'[c][1].bids, b)
                  <= Count(Flatten(passed'[c][worker'[c][1].auction_info.id]), b) ]_vars

\* C19's case: a batch of two bids was taken from the buffer and submitted after
\* the auction had ended; it was refused and the bids are gone.
C19_Witness ==
    \E c \in Chains, a \in AllIds :
        /\ Len(Flatten(passed[c][a])) = 2
        /\ reply = "AuctionEnded"
        /\ Ended(c) /\ State(c).auction_info.id = a
        /\ State(c).bids = <<>>
        /\ bid_buffer[c][a] = <<>>
        /\ \A f \in Flushers : fpc[f] = "idle"

\* The messages of chain c's worker in the sequence s, in order.
OfChain(s, c) == SelectSeq(s, LAMBDA msg : msg.chain_id = c)

\* C20: the consumer takes the messages of one worker in the order the worker
\* sent them, and a worker sends a message only for the auction it holds, so the
\* AuctionEnded of an auction is handled before the AuctionEnded of an auction
\* started later on the same chain.
C20_WorkerMessagesInSendOrder ==
    [][ /\ Recv =>
             \E c \in Chains :
                /\ in_flight[c] # <<>>
                /\ in_flight'[c] = Tail(in_flight[c])
                /\ Len(bus') = Len(bus) - 1
                /\ OfChain(bus', c) = SubSeq(in_flight'[c], 1, Len(OfChain(bus', c)))
                /\ Head(in_flight[c]).message_type = "AuctionEnded" =>
                     cmsg' = Some(Head(in_flight[c])) /\ cpc' = "read"
        /\ \A c \in Chains :
             Len(in_flight'[c]) > Len(in_flight[c]) =>
                /\ in_flight'[c] = Append(in_flight[c], in_flight'[c][Len(in_flight'[c])])
                /\ in_flight'[c][Len(in_flight'[c])].chain_id = c
                /\ in_flight'[c][Len(in_flight'[c])].auction_id = State(c).auction_info.id ]_vars

\* C20's case: the AuctionEnded of the earlier auction is being handled while the
\* AuctionEnded of the auction started after it waits in the channel.
C20_Witness ==
    /\ cmsg # None
    /\ cmsg[1].message_type = "AuctionEnded"
    /\ bus # <<>>
    /\ Head(bus).message_type = "AuctionEnded"
    /\ Head(bus).chain_id = cmsg[1].chain_id
    /\ Head(bus).auction_id # cmsg[1].auction_id
    /\ ended_sent[cmsg[1].auction_id] = 1
    /\ HasAuction(cmsg[1].chain_id)
    /\ State(cmsg[1].chain_id).auction_info.id = Head(bus).auction_id

\* C21 as claimed: whenever the worker holds an auction whose id differs from the
\* auction_id given to submit_bid, the call fails with InvalidAuctionId and appends
\* nothing.
C21_OtherIdIsInvalidAuctionId ==
    [][ \A c \in Chains : \A id \in CallIds(c), bid \in AllBids :
          (HasAuction(c) /\ State(c).auction_info.id # id /\ SubmitBid(c, id, bid)) =>
             reply' = "InvalidAuctionId" /\ worker'[c] = worker[c] ]_vars

\* C21, amended: whenever the worker holds an auction that has not ended and whose
\* id differs from the auction_id given to submit_bid, the call fails with
\* InvalidAuctionId and appends nothing; when the auction it holds has ended, the
\* call fails with AuctionEnded and appends nothing.
C21_OtherIdOfRunningIsInvalid ==
    [][ \A c \in Chains : \A id \in CallIds(c), bid \in AllBids :
          (HasAuction(c) /\ State(c).auction_info.id # id /\ SubmitBid(c, id, bid)) =>
             /\ reply' = (IF State(c).is_ended THEN "AuctionEnded" ELSE "InvalidAuctionId")
             /\ worker'[c] = worker[c]
             /\ accepted'[c] = accepted[c] ]_vars

\* C21's case: a running auction with a bid refused a submit_bid for another id.
C21_Witness ==
    \E c \in Chains :
        Running(c) /\ State(c).bids # <<>> /\ reply = "InvalidAuctionId"

\* C22: submit_bid returns NoAuctions when the chain has no worker or the worker
\* is idle, and AuctionEnded when the worker's auction has is_ended set; a failing
\* submit_bid leaves the worker's state as it is, and a successful one appends the
\* submitted bid as the last element of bids and changes nothing else.
C22_SubmitBidResults ==
    [][ \A c \in Chains : \A id \in CallIds(c), bid \in AllBids :
          SubmitBid(c, id, bid) =>
             IF c \notin workers \/ ~HasAuction(c)
             THEN reply' = "NoAuctions" /\ worker' = worker
             ELSE IF State(c).is_ended
             THEN reply' = "AuctionEnded" /\ worker' = worker
             ELSE IF State(c).auction_info.id # id
             THEN reply' # "Ok" /\ worker' = worker
             ELSE /\ reply' = "Ok"
                  /\ worker' = [ worker EXCEPT ![c] =
                                   Some([ State(c) EXCEPT !.bids = Append(@, bid) ]) ] ]_vars

\* C22's case: a chain without a worker refused a bid with NoAuctions while an
\* offer for it is pending.
C22_Witness ==
    \E c \in Chains :
        c \notin workers /\ reply = "NoAuctions" /\ auction_queues[c] # <<>>

\* C23: submit_auction_info rejects with InvalidAuctionTime every offer with
\* end_time < start_time + 500 and does not insert it in the queue; an offer with
\* end_time >= start_time + 500 that passes the other checks is inserted.
C23_ShortAuctionRejected ==
    [][ \A info \in RegistryInfos :
          SubmitAuctionInfo(info) =>
             IF info.end_time < info.start_time + MinAuctionTime
             THEN /\ validate_auction_info(info) = "InvalidAuctionTime"
                  /\ auction_queues' = auction_queues
             ELSE validate_auction_info(info) = "Ok" =>
                     auction_queues' = store_auction_info(info) ]_vars

\* C24: submit_auction_info rejects with InvalidGasLimit every offer whose
\* blockspace_size exceeds the gas_limit of its chain and does not insert it in the
\* queue; every offer in a pending queue has blockspace_size <= its chain's
\* gas_limit.
C24_OversizedOfferRejected ==
    [][ /\ \A info \in RegistryInfos :
             (SubmitAuctionInfo(info)
                /\ info.blockspace_size > chain_info_map[info.chain_id].gas_limit) =>
                /\ validate_auction_info(info) = "InvalidGasLimit"
                /\ auction_queues' = auction_queues
        /\ \A c \in Chains : \A i \in 1..Len(auction_queues'[c]) :
             auction_queues'[c][i].blockspace_size <= chain_info_map[c].gas_limit ]_vars

\* C25: whenever the worker holds an auction, get_latest_tob returns the empty
\* list if winner is none and otherwise the tx_list of the bid that set winner and
\* highest_bid at the last processing pass, also when the winner has several bids
\* in bids and when bids were appended after that pass.
C25_LatestTobIsWinningBid ==
    \A c \in Chains :
        HasAuction(c) =>
            get_latest_tob(c) =
                IF State(c).winner = None THEN <<>>
                ELSE TxList(State(c).winner[1], State(c).highest_bid)

\* C25's case: the winner of the last pass has since appended a higher bid.
C25_Witness ==
    \E c \in Chains :
        /\ Running(c)
        /\ State(c).winner # None
        /\ Len(State(c).bids) = 2
        /\ State(c).bids[1].bidder_addr = State(c).winner[1]
        /\ State(c).bids[2].bidder_addr = State(c).winner[1]
        /\ State(c).bids[2].bid_amount > State(c).highest_bid

\* C26: at every moment the bids a worker holds are, as a multiset, the bids for
\* which submit_bid or submit_bid_batch returned ok since the last start_auction:
\* none is lost or duplicated, the tick's sorting only permutes them, and the
\* ended state still holds every accepted bid.
C26_BidsAreTheAcceptedBids ==
    \A c \in Chains :
        /\ HasAuction(c) => SameBids(State(c).bids, accepted[c])
        /\ ~HasAuction(c) => accepted[c] = <<>>

\* C26's case: an ended auction holds its two accepted bids in another order than
\* they were accepted in.
C26_Witness ==
    \E c \in Chains :
        /\ Ended(c)
        /\ Len(accepted[c]) = 2
        /\ State(c).bids # accepted[c]
        /\ State(c).bids = <<accepted[c][2], accepted[c][1]>>

\* A tick is parked on the full channel and keeps the worker's state lock.
Parked(c) == sending[c] # None

\* One step of the manager's consumer task.
ConsumerStep == Recv \/ HandleRead \/ HandleRemove

\* C27: the tick loop, the bus consumer, start_next_auction and the flush never
\* deadlock: while a tick is parked on the full bus with the state lock held the
\* consumer can step, the parked tick gets its message out and drops the lock, and
\* every start_next_auction call and every flush in progress returns.
C27_NoDeadlock ==
    /\ [](\A c \in Chains :
             Parked(c) => IF Len(bus) = BusCapacity THEN ENABLED ConsumerStep
                          ELSE ENABLED SendCompletes(c))
    /\ \A c \in Chains : Parked(c) ~> LockFree(c)
    /\ (spc[1] # "idle") ~> (spc[1] = "idle")
    /\ (fpc[1] # "idle") ~> (fpc[1] = "idle")

\* C27's case: the bus is full, a tick is parked on it with the state lock held,
\* and a start_next_auction call and a flush both wait for that lock.
C27_Witness ==
    \E c \in Chains :
        /\ Parked(c)
        /\ Len(bus) = BusCapacity
        /\ spc[1] = "start"
        /\ fpc[1] = "submit"

\* The worker of chain c holds auction id and has not ended it.
RunningAuction(c, id) == Running(c) /\ State(c).auction_info.id = id

\* The worker of chain c has ended auction id and its AuctionEnded left the tick.
EndedAndSent(c, id) ==
    /\ Ended(c)
    /\ State(c).auction_info.id = id
    /\ ended_sent[id] >= 1
    /\ LockFree(c)

\* A tick that finds its auction running with the clock at or past end_time.
TickAtEnd(c) ==
    /\ Running(c)
    /\ now >= State(c).auction_info.end_time
    /\ ProcessAuction(c)

\* C28: with the tick loop, the clock and the consumer scheduled fairly, every
\* auction a worker has started and that no later start_auction replaces reaches
\* is_ended = true with its AuctionEnded sent, and it does so on the first tick
\* that runs with the clock at or past end_time.
C28_StartedAuctionEnds ==
    /\ \A c \in Chains : \A id \in AllIds :
          RunningAuction(c, id) ~>
              (EndedAndSent(c, id) \/ (HasAuction(c) /\ State(c).auction_info.id # id))
    /\ [][\A c \in Chains :
            TickAtEnd(c) =>
                /\ worker'[c][1].is_ended
                /\ worker'[c][1].auction_info = State(c).auction_info
                /\ in_flight'[c] = Append(in_flight[c],
                       WorkerMessage("AuctionEnded", c, State(c).auction_info.id))]_vars

\* C28's case: an auction that a tick found running before its end_time has been
\* ended by a later tick, and its AuctionEnded is on the bus with an
\* AuctionProcessing of the earlier tick.
C28_Witness ==
    \E c \in Chains :
        /\ Ended(c)
        /\ LockFree(c)
        /\ ended_sent[State(c).auction_info.id] = 1
        /\ \E i \in 1..Len(bus) :
              bus[i] = WorkerMessage("AuctionEnded", c, State(c).auction_info.id)
        /\ \E i \in 1..Len(bus) : bus[i].message_type = "AuctionProcessing"

\* C29: every auction a start_next_auction call has removed from the queue is
\* handed to the chain's worker with start_auction and recorded in
\* ongoing_auctions, also when the chain has no worker: after the pop the call goes
\* on to start_auction, start_auction puts the auction in the worker's state, and
\* the insert records it.
C29_PoppedAuctionIsStarted ==
    [][ \A s \in Starters :
          /\ StartGetWorker(s) => spc'[s] = "start"
          /\ StartAuction(s) =>
                /\ worker'[snext[s][1].chain_id] # None
                /\ worker'[snext[s][1].chain_id][1].auction_info = snext[s][1]
          /\ StartInsert(s) =>
                ongoing_auctions'[snext[s][1].chain_id] = Some(snext[s][1]) ]_vars

\* C30: however concurrent start_worker_for_chain(c) calls interleave, at most one
\* AuctionWorker is ever created, inserted in the workers map and run for chain c,
\* and a step of a call that finds a worker for its chain changes neither the
\* workers map nor any worker.
C30_OneWorkerPerChain ==
    [][ /\ \A c \in Chains :
             /\ created'[c] <= 1
             /\ spawned'[c] <= created'[c]
             /\ (c \in workers') <=> (created'[c] = 1)
        /\ \A w \in WorkerCallers :
             ((WorkerCheck(w) \/ WorkerInsert(w)) /\ WorkerChain(w) \in workers) =>
                 /\ UNCHANGED <<workers, created, spawned, worker>>
                 /\ wpc'[w] = "idle" ]_vars

\* C30's case: two calls for the same chain both passed the first contains_key;
\* one of them has inserted the worker and the other is about to take the write
\* lock.
C30_Witness ==
    \E w1, w2 \in WorkerCallers :
        /\ w1 # w2
        /\ WorkerChain(w1) = WorkerChain(w2)
        /\ wpc[w1] \in {"spawn", "handle"}
        /\ wpc[w2] = "write"
        /\ created[WorkerChain(w1)] = 1

\* C31: each chain has at most one flush task at any time, whatever start_tasks and
\* add_chain calls were made, so two flushes of one chain are never in progress
\* together.
C31_OneFlushTaskPerChain ==
    \A c \in Chains :
        /\ Cardinality(flush_tasks[c]) <= 1
        /\ Cardinality({ f \in Flushers : FlushChain(f) = c /\ fpc[f] # "idle" }) <= 1

\* The message a parked tick of chain c still has to put on the channel.
ParkedMessage(c) == IF sending[c] = None THEN <<>> ELSE << sending[c][1] >>

\* C32: every WorkerMessage a worker sends is received by the consumer exactly
\* once: the messages sent and not yet received are those on the channel followed
\* by the one a parked tick holds, each once; the channel never holds more than its
\* capacity; a parked send goes on the channel only when there is room; and a
\* receive takes exactly the oldest message off.
C32_EachMessageReceivedOnce ==
    [][ /\ Len(bus') <= BusCapacity
        /\ \A c \in Chains : in_flight'[c] = OfChain(bus', c) \o ParkedMessage(c)'
        /\ \A c \in Chains :
             (Parked(c) /\ ~Parked(c)') =>
                 Len(bus) < BusCapacity /\ bus' = Append(bus, sending[c][1])
        /\ \A c \in Chains :
             (~Parked(c) /\ Parked(c)') => Len(bus) = BusCapacity /\ bus' = bus
        /\ Recv => bus = <<Head(bus)>> \o bus' ]_vars

\* C32's case: the channel holds its capacity of undelivered messages and a tick
\* is blocked with one more.
C32_Witness ==
    \E c \in Chains :
        /\ Len(bus) = BusCapacity
        /\ sending[c] # None
        /\ Len(in_flight[c]) = BusCapacity + 1

\* A flush of chain c has taken its list and its submit_bid_batch waits for the
\* worker's state lock, which a parked tick holds.
SubmitBlocked(c) ==
    /\ Parked(c)
    /\ \E f \in Flushers : FlushChain(f) = c /\ fpc[f] = "submit"

\* C33: store_bid never waits for the worker's state lock or for submit_bid_batch:
\* while a batch submission of the chain is blocked on the worker, every store_bid
\* for the chain can complete, and a store_bid touches neither the worker nor the
\* flush in progress.
C33_StoreBidNeverWaitsForWorker ==
    [][ \A c \in Chains : \A id \in KnownIds(c), bid \in StoreBids :
          /\ (SubmitBlocked(c) /\ n_stored < MaxStored) => ENABLED StoreBid(c, id, bid)
          /\ StoreBid(c, id, bid) => UNCHANGED <<worker, sending, fpc, fid, fbids>> ]_vars

\* C33's case: a bid was stored for the ongoing auction after a flush took that
\* auction's list, and the flush's batch is still blocked on the worker.
C33_Witness ==
    \E c \in Chains : \E f \in Flushers :
        /\ SubmitBlocked(c)
        /\ FlushChain(f) = c
        /\ fpc[f] = "submit"
        /\ fbids[f] # <<>>
        /\ bid_buffer[c][fid[f][1]] # <<>>

\* Every list of the buffer is as before, except the one of chain c and auction a.
OtherListsKept(c, a) ==
    \A c2 \in DOMAIN bid_buffer : \A id \in AllIds :
        (c2 # c \/ id # a) => bid_buffer'[c2][id] = bid_buffer[c2][id]

\* C34: a flush of chain c that finds no ongoing auction leaves the buffer as it
\* is and ends; a flush that finds auction a ongoing removes only the list stored
\* under a, and every other list of c and of the other chains stays as it was.
C34_FlushRemovesOnlyOngoingList ==
    [][ \A f \in Flushers :
          /\ FlushGetId(f) =>
                /\ bid_buffer' = bid_buffer
                /\ get_ongoing_auction_id(FlushChain(f)) = None => fpc'[f] = "idle"
                /\ get_ongoing_auction_id(FlushChain(f)) # None =>
                      fid'[f] = get_ongoing_auction_id(FlushChain(f))
          /\ FlushTake(f) =>
                /\ OtherListsKept(FlushChain(f), fid[f][1])
                /\ bid_buffer'[FlushChain(f)][fid[f][1]] = <<>>
                /\ fbids'[f] = IF fpc'[f] = "submit"
                                THEN bid_buffer[FlushChain(f)][fid[f][1]] ELSE fbids[f]
          /\ FlushSubmit(f) => bid_buffer' = bid_buffer ]_vars

\* C34's case: the flush has removed the ongoing auction's list and the list of
\* another auction of the chain is still in the buffer.
C34_Witness ==
    \E f \in Flushers : \E id \in AllIds :
        /\ fpc[f] = "submit"
        /\ fbids[f] # <<>>
        /\ id # fid[f][1]
        /\ bid_buffer[FlushChain(f)][id] # <<>>
        /\ bid_buffer[FlushChain(f)][fid[f][1]] = <<>>

\* C35: every bid a worker holds has bid_amount <= 1_000_000_000, whether it came
\* through the manager's submit_bid or through store_bid and a flush.
C35_WorkerBidsWithinFunds ==
    \A c \in Chains :
        HasAuction(c) =>
            \A i \in 1..Len(State(c).bids) : State(c).bids[i].bid_amount <= MaxBidAmount

\* The result the checks chain known, seller registered, blockspace_size <=
\* gas_limit, end_time >= start_time + 500 give when applied in that order (the
\* signature check between the second and the third passes for every offer here).
FirstFailingCheck(info) ==
    IF info.chain_id \notin DOMAIN chain_info_map THEN "InvalidChainId"
    ELSE IF info.seller_address \notin chain_info_map[info.chain_id].registered_sellers
    THEN "SellerNotRegistered"
    ELSE IF info.blockspace_size > chain_info_map[info.chain_id].gas_limit
    THEN "InvalidGasLimit"
    ELSE IF info.end_time < info.start_time + MinAuctionTime
    THEN "InvalidAuctionTime"
    ELSE "Ok"

\* C36: submit_auction_info returns the error of the first failing check in the
\* order chain, seller, signature, gas limit, timing; a rejected offer is inserted
\* in no queue and an accepted offer is inserted once in the queue of its chain.
C36_ChecksInOrder ==
    [][ \A info \in RegistryInfos :
          SubmitAuctionInfo(info) =>
             /\ validate_auction_info(info) = FirstFailingCheck(info)
             /\ IF FirstFailingCheck(info) = "Ok"
                THEN auction_queues' = store_auction_info(info)
                ELSE auction_queues' = auction_queues ]_vars

\* C37: register_chain for a chain that is already registered returns
\* ChainAlreadyRegistered and changes neither the stored chain info nor any pending
\* queue; for a new chain it stores the info, and when it returns it returns ok, the
\* chain is among get_chain_ids and has an empty pending queue.
C37_RegisterChainOnceOnly ==
    [][ /\ \A r \in RegCallers, c \in RegChains, info \in NewChainInfos :
             RegisterChainInfo(r, c, info) =>
                IF validate_chain_id(c)
                THEN /\ rret'[r] = "ChainAlreadyRegistered"
                     /\ rpc'[r] = "idle"
                     /\ UNCHANGED <<chain_registry, queue_registry>>
                ELSE /\ chain_registry' = [ chain_registry EXCEPT ![c] = Some(info) ]
                     /\ rpc'[r] = "queue"
        /\ \A r \in RegCallers :
             RegisterChainQueue(r) =>
                /\ rret'[r] = "Ok"
                /\ rpc'[r] = "idle"
                /\ rchain[r][1] \in get_chain_ids'
                /\ queue_registry' = [ queue_registry EXCEPT ![rchain[r][1]] = Some(<<>>) ]
                /\ UNCHANGED chain_registry ]_vars

\* C37's case: one call has registered the new chain and returned ok, another call
\* for a registered chain has returned ChainAlreadyRegistered.
C37_Witness ==
    \E r1, r2 \in RegCallers :
        /\ rret[r1] = "Ok"
        /\ rret[r2] = "ChainAlreadyRegistered"
        /\ get_chain_ids = RegChains
        /\ \A c \in RegChains : queue_registry[c] # None

\* C38: whenever the chain registry knows a chain the auction registry has a
\* pending queue for it, so a submit_auction_info whose offer passed validation
\* stores the offer and returns ok, never InvalidChainId, however register_chain
\* and submit_auction_info interleave.
C38_KnownChainHasQueue ==
    [][ /\ \A c \in RegChains : validate_chain_id(c)' => queue_registry'[c] # None
        /\ StoreAuctionInfo =>
              /\ vret' = "Ok"
              /\ queue_registry'[vinfo[1].chain_id] # None ]_vars

\* A tick of chain c that gets as far as the sort: the auction is not ended and
\* the clock has reached its start_time.
ProcessingPass(c) ==
    /\ Running(c)
    /\ now >= State(c).auction_info.start_time
    /\ ProcessAuction(c)

\* The leader fields of chain c's auction are those of a fresh AuctionState.
NoLeader(c) == State(c).winner = None /\ State(c).highest_bid = 0

\* C39: for every auction a worker holds, winner is set if and only if a
\* processing pass since start_auction ran with bids non-empty: start_auction
\* leaves winner none and highest_bid 0, only a pass with bids non-empty sets them,
\* every such pass does, nothing else changes them, and a set winner is the bidder
\* of a bid in bids whose amount is highest_bid.
C39_WinnerIffObservedBid ==
    [][ \A c \in Chains :
          /\ (\E s \in Starters : StartAuction(s) /\ snext[s][1].chain_id = c) => NoLeader(c)'
          /\ (ProcessingPass(c) /\ State(c).bids # <<>>) => State(c)'.winner # None
          /\ (ProcessingPass(c) /\ State(c).bids = <<>>) =>
                /\ State(c)'.winner = State(c).winner
                /\ State(c)'.highest_bid = State(c).highest_bid
          /\ (HasAuction(c) /\ HasAuction(c)'
                /\ <<State(c).winner, State(c).highest_bid>>
                      # <<State(c)'.winner, State(c)'.highest_bid>>) =>
                \/ \E s \in Starters : StartAuction(s) /\ snext[s][1].chain_id = c
                \/ ProcessingPass(c) /\ State(c).bids # <<>>
          /\ HasAuction(c)' =>
                IF State(c)'.winner = None
                THEN State(c)'.highest_bid = 0
                ELSE \E i \in 1..Len(State(c)'.bids) :
                        /\ State(c)'.bids[i].bidder_addr = State(c)'.winner[1]
                        /\ State(c)'.bids[i].bid_amount = State(c)'.highest_bid ]_vars

\* C39's case: a pass has set the winner from two bids of different bidders and
\* amounts, and the winner's bid is the first of the list.
C39_Witness ==
    \E c \in Chains :
        /\ HasAuction(c)
        /\ State(c).winner # None
        /\ Len(State(c).bids) = 2
        /\ State(c).bids[1].bidder_addr # State(c).bids[2].bidder_addr
        /\ State(c).bids[1].bid_amount > State(c).bids[2].bid_amount
        /\ State(c).winner = Some(State(c).bids[1].bidder_addr)
        /\ State(c).highest_bid = State(c).bids[1].bid_amount

\* C40: for a registered chain get_bids returns the bids add_bid accepted since
\* the latest take_bids_for_processing, in insertion order; a take returns that
\* sequence, leaves the chain's list empty and appends the sequence to
\* processing_bids; add_bid and take on an unregistered chain fail with
\* InvalidChainId and add_chain on a registered chain with ChainAlreadyRegistered,
\* each without a change of the registry.
C40_BidRegistryKeepsOrder ==
    [][ \A c \in RegChains :
          /\ get_bids(c)' # None => get_bids(c)' = Some(added'[c])
          /\ add_chain(c) =>
                IF get_bids(c) # None
                THEN /\ bret' = Err("ChainAlreadyRegistered")
                     /\ UNCHANGED <<registry_bids, processing_bids>>
                ELSE bret'.ok /\ get_bids(c)' = Some(<<>>)
          /\ \A bid \in StoreBids :
                add_bid(c, bid) =>
                   IF get_bids(c) # None
                   THEN /\ bret'.ok
                        /\ get_bids(c)' = Some(Append(get_bids(c)[1], bid))
                        /\ UNCHANGED processing_bids
                   ELSE /\ bret' = Err("InvalidChainId")
                        /\ UNCHANGED <<registry_bids, processing_bids>>
          /\ take_bids_for_processing(c) =>
                IF get_bids(c) # None
                THEN /\ bret' = Ok(added[c])
                     /\ get_bids(c)' = Some(<<>>)
                     /\ processing_bids' =
                           [ processing_bids EXCEPT ![c] = @ \o added[c] ]
                ELSE /\ bret' = Err("InvalidChainId")
                     /\ UNCHANGED <<registry_bids, processing_bids>> ]_vars

\* C40's case: two different bids were added and taken in that order, and a bid
\* added after the take is the only one get_bids returns.
C40_Witness ==
    \E c \in RegChains :
        /\ get_bids(c) # None
        /\ Len(get_bids(c)[1]) = 1
        /\ Len(processing_bids[c]) = 2
        /\ processing_bids[c][1] # processing_bids[c][2]
        /\ added[c] = get_bids(c)[1]

====
